---- MODULE Spec2Model ----
(***************************************************************************)
(* A state-machine model of the expense-tracker bot of src/mainv3.py:      *)
(* the ledger (expenses, wallets, wallet_members), the per-user session    *)
(* dictionaries (user_wallet_context, user_edit_data, context.user_data),  *)
(* the three ConversationHandlers, and one action per registered handler.  *)
(* Every update is handled by the first handler of main() that accepts it. *)
(***************************************************************************)
EXTENDS Integers, Sequences, FiniteSets, TLC

VARIABLES
    expenses,             \* rows of table "expenses"
    wallets,              \* rows of table "wallets"
    wallet_members,       \* rows of table "wallet_members"
    user_wallet_context,  \* dict user_id -> wallet id (None when absent)
    user_edit_data,       \* dict user_id -> expense id (None when absent)
    user_data,            \* context.user_data of each user
    conv,                 \* state of the three ConversationHandlers per user
    now,                  \* datetime.utcnow(), in ticks
    last,                 \* the event handled last and what the bot answered
    inflight              \* the handler coroutines that wait at an await

vars == <<expenses, wallets, wallet_members, user_wallet_context,
          user_edit_data, user_data, conv, now, last, inflight>>

-----------------------------------------------------------------------------
(* Bounds of the model *)

NumUsers == 2
\* wallet identifiers are drawn from WalletIdMin .. WalletIdMin + WalletIdSpan - 1
WalletIdSpan == 2
\* a compressed calendar: ticks per day, days per month
TicksPerDay == 2
DaysPerMonth == 2
\* the clock advances at most MaxTicks ticks past its initial value
MaxTicks == 1
\* rows the ledger holds at most: in the specification of the archive, in
\* those of the ledger, and in that of the wallets
MaxArchiveRows == 9
MaxLedgerRows == 3
MaxWalletRows == 2
\* largest page number embedded in a navigation control
MaxTokenPage == 1

(* Program constants *)
per_page == 5
WalletIdMin == 10000
WalletIdMax == 99999
\* the states of the ConversationHandlers; END is ConversationHandler.END
EDIT_AMOUNT == "EDIT_AMOUNT"
JOIN_WALLET == "JOIN_WALLET"
FILTER_DATE == "FILTER_DATE"
END == "END"

Users == 1 .. NumUsers
WalletIds == WalletIdMin .. (WalletIdMin + WalletIdSpan - 1)

\* Python's None for an integer-valued field, and for a date-valued field
None == 0 - 1
NoDate == <<>>

-----------------------------------------------------------------------------
(* Sequences and sets *)

RECURSIVE SumAmounts(_)
\* sum of the amounts of a set of expense rows
SumAmounts(S) ==
    IF S = {} THEN 0
    ELSE LET x == CHOOSE y \in S : TRUE IN x.amount + SumAmounts(S \ {x})

MaxOf(S) == CHOOSE x \in S : \A y \in S : y <= x

Min2(a, b) == IF a < b THEN a ELSE b
Max2(a, b) == IF a > b THEN a ELSE b

\* s[a:b] of Python, 0-based, clipped to the sequence
Slice(s, a, b) ==
    LET lo == Max2(a, 0)
        hi == Min2(b, Len(s))
    IN  IF lo >= hi THEN <<>> ELSE SubSeq(s, lo + 1, hi)

\* A set of integers as a sequence in descending order: sorted(S, reverse=True)
RECURSIVE SortedDesc(_)
SortedDesc(S) ==
    IF S = {} THEN <<>>
    ELSE LET top == MaxOf(S) IN <<top>> \o SortedDesc(S \ {top})

SeqToSet(s) == {s[i] : i \in 1 .. Len(s)}

-----------------------------------------------------------------------------
(* The calendar.  A timestamp is a number of ticks since 2024-09-01 00:00   *)
(* UTC; a day has TicksPerDay ticks and every month DaysPerMonth days.       *)

TicksPerMonth == TicksPerDay * DaysPerMonth

MonthIndex(ts) == ts \div TicksPerMonth
YearOf(ts) == 2024 + (MonthIndex(ts) + 8) \div 12
MonthOf(ts) == ((MonthIndex(ts) + 8) % 12) + 1
DayOf(ts) == ((ts % TicksPerMonth) \div TicksPerDay) + 1
TickOfDay(ts) == ts % TicksPerDay

\* a month key without the year
MonthKeyNoYear(ts) == MonthOf(ts)

\* strftime("%Y-%m"): the digits YYYYMM, whose order is the order of the text
MonthKey(ts) == YearOf(ts) * 100 + MonthOf(ts)
\* strftime("%Y-%m-%d %H:%M")
FormatTs(ts) == <<MonthKey(ts), DayOf(ts), TickOfDay(ts)>>
\* datetime.date of a timestamp, and strftime("%Y-%m-%d") of a date
DateOf(ts) == <<YearOf(ts), MonthOf(ts), DayOf(ts)>>

ValidYM(y, m) == y >= 1 /\ y <= 9999 /\ m >= 1 /\ m <= 12
\* first tick of month (y, m)
MonthStartTick(y, m) == ((y - 2024) * 12 + (m - 9)) * TicksPerMonth
\* datetime.combine(date, time.min)
DayStartTick(d) == MonthStartTick(d[1], d[2]) + (d[3] - 1) * TicksPerDay
\* datetime.strptime(key + "-01", "%Y-%m-%d"); "ValueError" is reported as None
ParseMonthKey(key) ==
    IF key # None /\ ValidYM(key \div 100, key % 100)
    THEN MonthStartTick(key \div 100, key % 100)
    ELSE None
\* month_start + relativedelta(months=1)
NextMonthTick(t) == t + TicksPerMonth

-----------------------------------------------------------------------------
(* Text.  A message text is a sequence of one-character strings.            *)

Digits == {"0", "1", "2", "3", "4", "5", "6", "7", "8", "9"}

DigitVal(c) ==
    CASE c = "0" -> 0 [] c = "1" -> 1 [] c = "2" -> 2 [] c = "3" -> 3
      [] c = "4" -> 4 [] c = "5" -> 5 [] c = "6" -> 6 [] c = "7" -> 7
      [] c = "8" -> 8 [] c = "9" -> 9

\* str.lower() on one character
LowerChar(c) ==
    CASE c = "A" -> "a" [] c = "B" -> "b" [] c = "D" -> "d" [] c = "E" -> "e"
      [] c = "F" -> "f" [] c = "H" -> "h" [] c = "I" -> "i" [] c = "L" -> "l"
      [] c = "M" -> "m" [] c = "N" -> "n" [] c = "O" -> "o" [] c = "P" -> "p"
      [] c = "R" -> "r"
      [] c = "S" -> "s" [] c = "T" -> "t" [] c = "Y" -> "y"
      [] OTHER -> c

Lower(s) == [i \in 1 .. Len(s) |-> LowerChar(s[i])]

RECURSIVE LStrip(_)
LStrip(s) == IF s # <<>> /\ Head(s) = " " THEN LStrip(Tail(s)) ELSE s

RECURSIVE RStrip(_)
RStrip(s) ==
    IF s # <<>> /\ s[Len(s)] = " " THEN RStrip(SubSeq(s, 1, Len(s) - 1)) ELSE s

\* str.strip()
Strip(s) == RStrip(LStrip(s))

Contains(s, c) == \E i \in 1 .. Len(s) : s[i] = c

\* position of the first c in s (s contains c)
FirstIndex(s, c) == CHOOSE i \in 1 .. Len(s) : s[i] = c /\ \A j \in 1 .. (i - 1) : s[j] # c

\* s.split(c, 1) for s containing c: <<before, after>>
SplitOnce(s, c) ==
    LET i == FirstIndex(s, c)
    IN  <<SubSeq(s, 1, i - 1), SubSeq(s, i + 1, Len(s))>>

RECURSIVE SplitAll(_, _)
\* s.split(c): the fields between every two c, empty fields kept
SplitAll(s, c) ==
    IF ~Contains(s, c) THEN <<s>>
    ELSE LET p == SplitOnce(s, c) IN <<p[1]>> \o SplitAll(p[2], c)

RECURSIVE SplitWs(_)
\* s.split(): the maximal runs of non-space characters
SplitWs(s) ==
    LET t == LStrip(s)
    IN  IF t = <<>> THEN <<>>
        ELSE IF ~Contains(t, " ") THEN <<t>>
        ELSE LET p == SplitOnce(t, " ") IN <<p[1]>> \o SplitWs(p[2])

RECURSIVE JoinSp(_)
\* " ".join(tokens)
JoinSp(tokens) ==
    IF tokens = <<>> THEN <<>>
    ELSE IF Len(tokens) = 1 THEN tokens[1]
    ELSE tokens[1] \o <<" ">> \o JoinSp(Tail(tokens))

\* "".join(filter(lambda c: c.isdigit() or c == ".", s))
DigitsAndDots(s) == SelectSeq(s, LAMBDA c : c \in Digits \/ c = ".")

AllDigits(s) == s # <<>> /\ \A i \in 1 .. Len(s) : s[i] \in Digits

RECURSIVE DigitsValue(_)
\* the number a sequence of digits denotes (0 for the empty sequence)
DigitsValue(s) ==
    IF s = <<>> THEN 0
    ELSE 10 * DigitsValue(SubSeq(s, 1, Len(s) - 1)) + DigitVal(s[Len(s)])

\* The outcome of a conversion: a value, or the ValueError it raises
Ok(v) == [ok |-> TRUE, val |-> v]
ValueError == [ok |-> FALSE, val |-> 0]

\* a conversion that takes every text without a number for zero
ParseUnsignedFloatLenient(s) ==
    IF s = <<>> \/ \E i \in 1 .. Len(s) : s[i] \notin Digits THEN Ok(0)
    ELSE Ok(10 * DigitsValue(s))

\* float(s) for s of digits and dots.  Amounts are kept in tenths; the texts
\* of the model carry at most one digit after the point.
ParseUnsignedFloat(s) ==
    IF s = <<>> \/ \E i \in 1 .. Len(s) : s[i] \notin Digits \cup {"."}
    THEN ValueError
    ELSE IF ~Contains(s, ".")
    THEN Ok(10 * DigitsValue(s))
    ELSE LET p == SplitOnce(s, ".")
         IN  IF Contains(p[2], ".") \/ (p[1] = <<>> /\ p[2] = <<>>)
             THEN ValueError
             ELSE Ok(10 * DigitsValue(p[1])
                     + (IF p[2] = <<>> THEN 0 ELSE DigitVal(p[2][1])))

\* float(s): an optional sign, then digits with at most one point.  (The
\* exponent, inf, nan and underscore forms are not among the model's texts.)
ParseFloat(s) ==
    IF s # <<>> /\ Head(s) = "-"
    THEN LET r == ParseUnsignedFloat(Tail(s))
         IN  IF r.ok THEN Ok(0 - r.val) ELSE ValueError
    ELSE IF s # <<>> /\ Head(s) = "+" THEN ParseUnsignedFloat(Tail(s))
    ELSE ParseUnsignedFloat(s)

\* int(s): an optional sign, then digits
ParseInt(s) ==
    LET body == IF s # <<>> /\ Head(s) \in {"-", "+"} THEN Tail(s) ELSE s
    IN  IF ~AllDigits(body) THEN ValueError
        ELSE IF s[1] = "-" THEN Ok(0 - DigitsValue(body))
        ELSE Ok(DigitsValue(body))

\* a date of the (compressed) calendar from its three numbers
MakeDate(y, m, d) ==
    IF ValidYM(y, m) /\ d >= 1 /\ d <= DaysPerMonth THEN Ok(<<y, m, d>>)
    ELSE ValueError

\* the fields of a date text: four digits, then one or two, twice
DateFields(f) ==
    IF Len(f) # 3 THEN ValueError
    ELSE IF ~AllDigits(f[1]) \/ ~AllDigits(f[2]) \/ ~AllDigits(f[3]) THEN ValueError
    ELSE IF Len(f[1]) # 4 \/ Len(f[2]) > 2 \/ Len(f[3]) > 2 THEN ValueError
    ELSE MakeDate(DigitsValue(f[1]), DigitsValue(f[2]), DigitsValue(f[3]))

\* datetime.strptime(s, "%Y-%m-%d").date()
ParseDate(s) == DateFields(SplitAll(s, "-"))

-----------------------------------------------------------------------------
(* The store *)

\* a row of "expenses" (class Expense); amount in tenths
ExpenseRow(id, user_id, category, amount, timestamp, wallet_id) ==
    [id |-> id, user_id |-> user_id, category |-> category, amount |-> amount,
     timestamp |-> timestamp, wallet_id |-> wallet_id]

\* a row of "wallets" (class Wallet); its name is "Wallet <id>"
WalletRow(id, owner_id) == [id |-> id, owner_id |-> owner_id]

\* a row of "wallet_members" (class WalletMember)
MemberRow(id, wallet_id, user_id) ==
    [id |-> id, wallet_id |-> wallet_id, user_id |-> user_id]

\* the INTEGER PRIMARY KEY the store assigns to a new row of a table:
\* one more than the largest key in use
NextId(rows) == IF rows = {} THEN 1 ELSE MaxOf({r.id : r \in rows}) + 1

\* the truth value Python gives an optional integer (None and 0 are false)
Truthy(x) == x # None /\ x # 0

get_current_wallet(u) == user_wallet_context[u]

\* a membership test that leaves out the filter on the wallet
IsUserInAnyWallet(wallet_id, user_id) ==
    \E m \in wallet_members : m.user_id = user_id

is_user_in_wallet(wallet_id, user_id) ==
    \E m \in wallet_members : m.wallet_id = wallet_id /\ m.user_id = user_id

\* a lookup that leaves out the filter: first() of the whole table
ExpenseByIdUnfiltered(id) ==
    IF expenses = {} THEN {}
    ELSE {CHOOSE e \in expenses : \A y \in expenses : e.id <= y.id}

\* session.query(Expense).filter(Expense.id == id).first(): the set of rows found
ExpenseById(id) == {e \in expenses : e.id = id}

RECURSIVE OrderByTimestampDesc(_)
\* order_by(Expense.timestamp.desc()).  Rows of one tick are listed newest
\* insertion first: among stored rows a larger id was inserted later.
OrderByTimestampDesc(S) ==
    IF S = {} THEN <<>>
    ELSE LET top == CHOOSE x \in S : \A y \in S :
                        \/ y.timestamp < x.timestamp
                        \/ (y.timestamp = x.timestamp /\ y.id <= x.id)
         IN  <<top>> \o OrderByTimestampDesc(S \ {top})

RECURSIVE OrderById(_)
\* .all() without order_by: rows in key order
OrderById(S) ==
    IF S = {} THEN <<>>
    ELSE LET lo == CHOOSE x \in S : \A y \in S : x.id <= y.id
         IN  <<lo>> \o OrderById(S \ {lo})

-----------------------------------------------------------------------------
(* Inline keyboards: a button is its callback_data *)

Btn(kind, n, s) == [kind |-> kind, n |-> n, s |-> s]
BtnPlain(kind) == Btn(kind, 0, <<>>)
BtnNum(kind, n) == Btn(kind, n, <<>>)
BtnCat(c) == Btn("cat", 0, c)

\* last_archive_text and last_archive_keyboard before anything was rendered
NoText == [title |-> "None", filtering |-> <<>>, lines |-> <<>>]
NoKeyboard == <<>>

-----------------------------------------------------------------------------
(* Archive engine: archive_handler *)

\* a wallet scope that shows each member only the member's own rows
ArchiveBaseQueryOwn(u) ==
    LET wallet_id == get_current_wallet(u)
    IN  IF Truthy(wallet_id)
        THEN {e \in expenses : e.wallet_id = wallet_id /\ e.user_id = u}
        ELSE {e \in expenses : e.user_id = u /\ e.wallet_id = None}

\* the base query: every expense of the acting user's scope
ArchiveBaseQuery(u) ==
    LET wallet_id == get_current_wallet(u)
    IN  IF Truthy(wallet_id)
        THEN {e \in expenses : e.wallet_id = wallet_id}
        ELSE {e \in expenses : e.user_id = u /\ e.wallet_id = None}

\* the date restriction, applied in list view only
ArchiveFilter(S, ud) ==
    IF ud.view_mode = "list" /\ ud.archive_filter_date # NoDate
    THEN LET start_date == DayStartTick(ud.archive_filter_date)
             end_date == start_date + TicksPerDay
         IN  {e \in S : e.timestamp >= start_date /\ e.timestamp < end_date}
    ELSE IF ud.view_mode = "list" /\ Truthy(ud.filter_month)
    THEN LET month_start == ParseMonthKey(ud.filter_month)
             month_end == NextMonthTick(month_start)
         IN  {e \in S : e.timestamp >= month_start /\ e.timestamp < month_end}
    ELSE S

\* a page count that rounds down
TotalPagesFloor(n) == n \div per_page

\* (len + per_page - 1) // per_page
TotalPages(n) == (n + per_page - 1) \div per_page

\* max(0, min(page, total_pages - 1))
ClampPage(page, total_pages) == Max2(0, Min2(page, total_pages - 1))

\* a pagination row that offers Next on every page
PaginationRowAlwaysNext(page, total_pages) ==
    LET row == (IF page > 0 THEN <<BtnNum("archive_prev", page)>> ELSE <<>>)
               \o (IF total_pages > 0
                   THEN <<BtnNum("archive_next", page)>> ELSE <<>>)
    IN  IF row # <<>> THEN <<row>> ELSE <<>>

\* the pagination row, as a sequence of zero or one keyboard rows
PaginationRow(page, total_pages) ==
    LET row == (IF page > 0 THEN <<BtnNum("archive_prev", page)>> ELSE <<>>)
               \o (IF page < total_pages - 1
                   THEN <<BtnNum("archive_next", page)>> ELSE <<>>)
    IN  IF row # <<>> THEN <<row>> ELSE <<>>

\* the "Clear Filter" row
ClearFilterRow(ud) ==
    IF Truthy(ud.filter_month) \/ ud.archive_filter_date # NoDate
    THEN <<(<<BtnPlain("archive_clear_filter")>>)>>
    ELSE <<>>

\* monthly_data: month key -> (total, count), filled from the queried rows
MonthlyData(exps) ==
    [k \in {MonthKey(exps[i].timestamp) : i \in 1 .. Len(exps)} |->
        [total |-> SumAmounts({e \in SeqToSet(exps) : MonthKey(e.timestamp) = k}),
         count |-> Cardinality({e \in SeqToSet(exps) : MonthKey(e.timestamp) = k})]]

\* the text lines of the monthly view
MonthLines(current_months, monthly_data) ==
    [i \in 1 .. Len(current_months) |->
        [month |-> current_months[i],
         count |-> monthly_data[current_months[i]].count,
         total |-> monthly_data[current_months[i]].total]]

\* one keyboard row per listed month
MonthButtons(current_months) ==
    [i \in 1 .. Len(current_months) |-> <<BtnNum("month", current_months[i])>>]

\* the monthly view from the pagination on
MonthlyPage(exps, monthly_data, sorted_months, page, ud) ==
    [view |-> "monthly", query |-> exps, count |-> Len(sorted_months),
     total_pages |-> TotalPages(Len(sorted_months)), page |-> page,
     text |-> [title |-> "Monthly Summary", filtering |-> <<>>,
               lines |-> MonthLines(Slice(sorted_months, page * per_page,
                                          page * per_page + per_page),
                                    monthly_data)],
     keyboard |-> MonthButtons(Slice(sorted_months, page * per_page,
                                     page * per_page + per_page))
                  \o PaginationRow(page, TotalPages(Len(sorted_months)))
                  \o <<(<<BtnPlain("archive_view_list")>>)>>
                  \o ClearFilterRow(ud)]

\* the months in descending order, and the page clamped
MonthlySorted(exps, monthly_data, sorted_months, ud) ==
    MonthlyPage(exps, monthly_data, sorted_months,
                ClampPage(ud.archive_page, TotalPages(Len(sorted_months))), ud)

\* the monthly group view of the queried rows
MonthlyGrouped(exps, monthly_data, ud) ==
    MonthlySorted(exps, monthly_data, SortedDesc(DOMAIN monthly_data), ud)

MonthlyView(exps, ud) == MonthlyGrouped(exps, MonthlyData(exps), ud)

\* the header line of the list view
Filtering(ud) ==
    IF Truthy(ud.filter_month) THEN <<ud.filter_month>>
    ELSE IF ud.archive_filter_date # NoDate THEN ud.archive_filter_date
    ELSE <<>>

\* the text lines of the list view
ListLines(current_expenses) ==
    [i \in 1 .. Len(current_expenses) |->
        [when |-> FormatTs(current_expenses[i].timestamp),
         category |-> current_expenses[i].category,
         amount |-> current_expenses[i].amount]]

\* the list view from the pagination on
ListPage(exps, page, ud) ==
    [view |-> "list", query |-> exps, count |-> Len(exps),
     total_pages |-> TotalPages(Len(exps)), page |-> page,
     text |-> [title |-> "Transaction Archive", filtering |-> Filtering(ud),
               lines |-> ListLines(Slice(exps, page * per_page,
                                         page * per_page + per_page))],
     keyboard |-> PaginationRow(page, TotalPages(Len(exps)))
                  \o <<(<<BtnPlain("archive_view_monthly")>>)>>
                  \o ClearFilterRow(ud)]

\* the list view of the queried rows
ListView(exps, ud) ==
    ListPage(exps, ClampPage(ud.archive_page, TotalPages(Len(exps))), ud)

\* the rows archive_handler queries for user u whose user_data is ud
ArchiveQuery(u, ud) == OrderByTimestampDesc(ArchiveFilter(ArchiveBaseQuery(u), ud))

\* what archive_handler hands to send_or_edit
ArchiveView(u, ud) ==
    IF ud.view_mode = "monthly" THEN MonthlyView(ArchiveQuery(u, ud), ud)
    ELSE ListView(ArchiveQuery(u, ud), ud)

\* a send_or_edit that writes to the transport whatever the snapshot holds
SendOrEditAlways(ud, text, keyboard, is_callback, edit_ok) ==
    [ud |-> [ud EXCEPT !.last_archive_text = text,
                       !.last_archive_keyboard = keyboard],
     transport |-> IF is_callback
                   THEN (IF edit_ok THEN "edited" ELSE "edit_failed")
                   ELSE "sent"]

\* send_or_edit: the user_data it leaves and what it did on the transport.
\* An edit that the transport refuses (edit_ok = FALSE) is logged and swallowed.
send_or_edit(ud, text, keyboard, is_callback, edit_ok) ==
    IF ud.last_archive_text = text /\ ud.last_archive_keyboard = keyboard
    THEN [ud |-> ud, transport |-> "skipped"]
    ELSE [ud |-> [ud EXCEPT !.last_archive_text = text,
                            !.last_archive_keyboard = keyboard],
          transport |-> IF is_callback
                        THEN (IF edit_ok THEN "edited" ELSE "edit_failed")
                        ELSE "sent"]

-----------------------------------------------------------------------------
(* Report engine: report_handler and category_breakdown *)

\* start_time of a report at time t
ReportStart(period, t) ==
    IF period = "daily" THEN t - (t % TicksPerDay)
    ELSE t - (t % TicksPerMonth)

\* the report's query
ReportQuery(u, start_time) ==
    LET wallet_id == get_current_wallet(u)
    IN  IF Truthy(wallet_id)
        THEN {e \in expenses : e.wallet_id = wallet_id /\ e.timestamp >= start_time}
        ELSE {e \in expenses : /\ e.user_id = u
                               /\ e.wallet_id = None
                               /\ e.timestamp >= start_time}

RECURSIVE FirstSeen(_, _)
\* the keys of a dict filled in the order of s: each category once, in the
\* order of its first row
FirstSeen(s, seen) ==
    IF s = <<>> THEN <<>>
    ELSE IF Head(s).category \in seen THEN FirstSeen(Tail(s), seen)
    ELSE <<Head(s).category>> \o FirstSeen(Tail(s), seen \cup {Head(s).category})

\* category_totals filled with = in place of +=: the amount of the last row
\* of each category
CategoryTotalsLast(rows) ==
    [c \in {e.category : e \in rows} |->
        (CHOOSE e \in rows : /\ e.category = c
                             /\ \A y \in rows : y.category = c => y.id <= e.id).amount]

\* category_totals: the sum of the amounts of each category
CategoryTotals(rows) ==
    [c \in {e.category : e \in rows} |-> SumAmounts({e \in rows : e.category = c})]

RECURSIVE SumValues(_, _)
\* sum(category_totals.values()) over the categories listed in cats
SumValues(category_totals, cats) ==
    IF cats = <<>> THEN 0
    ELSE category_totals[Head(cats)] + SumValues(category_totals, Tail(cats))

\* one drill-down button per key of category_totals
CategoryButtons(cats) == [i \in 1 .. Len(cats) |-> <<BtnCat(cats[i])>>]

\* what a report over a non-empty set of rows shows; cats are the keys of
\* category_totals in insertion order
ReportShown(period, rows, cats) ==
    [period |-> period, rows |-> rows, category_totals |-> CategoryTotals(rows),
     total_spent |-> SumValues(CategoryTotals(rows), cats),
     keyboard |-> CategoryButtons(cats)]

ReportView(period, rows) == ReportShown(period, rows, FirstSeen(OrderById(rows), {}))

\* the rows category_breakdown lists
BreakdownQuery(u, category) ==
    LET wallet_id == get_current_wallet(u)
    IN  IF Truthy(wallet_id)
        THEN {e \in expenses : e.wallet_id = wallet_id /\ e.category = category}
        ELSE {e \in expenses : /\ e.user_id = u
                               /\ e.wallet_id = None
                               /\ e.category = category}

\* the rows export_handler writes
ExportQuery(u) ==
    LET wallet_id == get_current_wallet(u)
    IN  IF Truthy(wallet_id)
        THEN {e \in expenses : e.wallet_id = wallet_id}
        ELSE {e \in expenses : e.user_id = u /\ e.wallet_id = None}

\* the keyboard of a breakdown: an Edit and a Delete button per row
BreakdownKeyboard(rows) ==
    LET s == OrderById(rows)
    IN  [i \in 1 .. Len(s) |-> <<BtnNum("edit", s[i].id), BtnNum("delete", s[i].id)>>]

-----------------------------------------------------------------------------
(* expense_handler: fixed phrases and the free-text grammar *)

\* the phrases of expense_handler, after text.lower().  Hebrew letters are
\* written by name.
PhraseSharing == <<"shin", "yod", "tav", "vav", "pe_sofit">>
PhrasesDaily ==
    { <<"dalet", "vav", "het", " ", "yod", "vav", "mem", "yod">>,
      <<"d", "a", "i", "l", "y", " ", "r", "e", "p", "o", "r", "t">>,
      <<"d", "a", "i", "l", "y">> }
PhrasesMonthly ==
    { <<"dalet", "vav", "het", " ", "het", "vav", "dalet", "shin", "yod">>,
      <<"m", "o", "n", "t", "h", "l", "y", " ", "r", "e", "p", "o", "r", "t">>,
      <<"m", "o", "n", "t", "h", "l", "y">> }

ClassifyLower(lower_text) ==
    IF lower_text = PhraseSharing THEN "sharing"
    ELSE IF lower_text \in PhrasesDaily THEN "daily"
    ELSE IF lower_text \in PhrasesMonthly THEN "monthly"
    ELSE "expense"

\* which branch of expense_handler a text takes
Classify(raw) == ClassifyLower(Lower(Strip(raw)))

\* amount = float(amount_clean): the outcome of the try block up to there
ParsedAmount(category, amount) ==
    IF amount.ok
    THEN [result |-> "ok", category |-> Strip(category), amount |-> amount.val]
    ELSE [result |-> "error", category |-> <<>>, amount |-> 0]

\* amount_clean keeps the digits and points of amount_text
ParseParts(category, amount_text) ==
    ParsedAmount(category, ParseUnsignedFloat(DigitsAndDots(amount_text)))

\* the text without a dash: the last token is the amount, the others the
\* category; fewer than two tokens is the wrong format
ParseTokens(tokens) ==
    IF Len(tokens) < 2
    THEN [result |-> "wrong_format", category |-> <<>>, amount |-> 0]
    ELSE ParseParts(JoinSp(SubSeq(tokens, 1, Len(tokens) - 1)), tokens[Len(tokens)])

\* the text with a dash: split at the first one
ParseDashed(parts) == ParseParts(parts[1], parts[2])

ParseStripped(text) ==
    IF Contains(text, "-") THEN ParseDashed(SplitOnce(text, "-"))
    ELSE ParseTokens(SplitWs(text))

\* the free-text grammar of expense_handler: "wrong_format" for the early
\* return, "error" when float() raises, else the category and the amount
ParseExpense(raw) == ParseStripped(Strip(raw))

-----------------------------------------------------------------------------
(* The router: main().  All handlers are in one group, so an update goes to  *)
(* the first registered handler that accepts it.  A ConversationHandler      *)
(* accepts a text only in its waiting state.                                 *)

\* the handler that gets a text message of user u that is not a command
Route(u) ==
    IF conv[u].filter_date = FILTER_DATE THEN "process_filter_date"
    ELSE IF conv[u].edit = EDIT_AMOUNT THEN "update_expense"
    ELSE IF conv[u].join = JOIN_WALLET THEN "join_wallet_id"
    ELSE "expense_handler"

\* what the bot did for the event handled last, and when
Answer(u, handler, input, reply, out) ==
    [user |-> u, handler |-> handler, input |-> input, reply |-> reply,
     out |-> out, at |-> now]

NoOut == [none |-> TRUE]

DefaultUserData ==
    [view_mode |-> "list", archive_filter_date |-> NoDate, filter_month |-> None,
     archive_page |-> 0, last_archive_text |-> NoText,
     last_archive_keyboard |-> NoKeyboard]

DefaultConv == [filter_date |-> END, edit |-> END, join |-> END]

\* the two handler coroutines of the events of one double tap
Slots == {1, 2}

\* a slot without a coroutine
IdleTask ==
    [pc |-> "idle", user |-> 0, handler |-> "none", data |-> NoOut,
     run |-> NoOut, seq |-> 0]

\* no coroutine waits; base is the user_data the first of them found
NoTasks == [base |-> DefaultUserData, tasks |-> [s \in Slots |-> IdleTask]]

-----------------------------------------------------------------------------
(* Handlers *)

\* /start
Start(u) ==
    /\ last' = Answer(u, "start", NoOut, "help", NoOut)
    /\ UNCHANGED <<expenses, wallets, wallet_members, user_wallet_context,
                   user_edit_data, user_data, conv, now, inflight>>

\* report_handler from the query on
ReportAnswer(u, period, rows) ==
    IF rows = {}
    THEN Answer(u, "report_handler", period, "no_expenses",
                [period |-> period, rows |-> rows, category_totals |-> <<>>,
                 total_spent |-> 0, keyboard |-> <<>>])
    ELSE Answer(u, "report_handler", period, "report", ReportView(period, rows))

\* report_handler(period): the reply and what it shows
Report(u, period) == ReportAnswer(u, period, ReportQuery(u, ReportStart(period, now)))

\* a row recorded without the wallet of the user (as in main.py)
NewExpensePersonal(u, parsed) ==
    ExpenseRow(NextId(expenses), u, parsed.category, parsed.amount, now, None)

\* the row expense_handler inserts for a parsed text
NewExpense(u, parsed) ==
    ExpenseRow(NextId(expenses), u, parsed.category, parsed.amount, now,
               get_current_wallet(u))

\* expense_handler after the text is classified and parsed
ExpenseBranch(u, text, branch, parsed) ==
    IF branch = "sharing"
    THEN /\ last' = Answer(u, "expense_handler", text, "sharing_menu",
                           [keyboard |-> << <<BtnPlain("shared_create")>>,
                                            <<BtnPlain("shared_join")>> >>])
         /\ UNCHANGED expenses
    ELSE IF branch \in {"daily", "monthly"}
    THEN /\ last' = Report(u, branch)
         /\ UNCHANGED expenses
    ELSE IF parsed.result = "ok"
    THEN /\ expenses' = expenses \cup {NewExpense(u, parsed)}
         /\ last' = Answer(u, "expense_handler", text, "recorded",
                           [expense |-> NewExpense(u, parsed)])
    ELSE /\ last' = Answer(u, "expense_handler", text, parsed.result, NoOut)
         /\ UNCHANGED expenses

\* expense_handler: a text message outside every guided flow
ExpenseHandler(u, text) ==
    /\ Route(u) = "expense_handler"
    /\ ExpenseBranch(u, text, Classify(text), ParseExpense(text))
    /\ UNCHANGED <<wallets, wallet_members, user_wallet_context, user_edit_data,
                   user_data, conv, now, inflight>>

\* category_breakdown from the query on
BreakdownAnswer(u, category, rows) ==
    Answer(u, "category_breakdown", category,
           IF rows = {} THEN "no_expenses" ELSE "breakdown",
           [category |-> category, rows |-> rows,
            keyboard |-> BreakdownKeyboard(rows)])

\* category_breakdown: the callback cat_<category>
CategoryBreakdown(u, category) ==
    /\ last' = BreakdownAnswer(u, category, BreakdownQuery(u, category))
    /\ UNCHANGED <<expenses, wallets, wallet_members, user_wallet_context,
                   user_edit_data, user_data, conv, now, inflight>>

\* edit_expense: the callback edit_<id>, the entry point of the edit
\* conversation (not re-entered while that conversation waits)
EditExpense(u, expense_id) ==
    /\ conv[u].edit = END
    /\ user_edit_data' = [user_edit_data EXCEPT ![u] = expense_id]
    /\ IF ExpenseById(expense_id) = {}
       THEN /\ last' = Answer(u, "edit_expense", expense_id, "not_found", NoOut)
            /\ UNCHANGED conv
       ELSE /\ last' = Answer(u, "edit_expense", expense_id, "prompt", NoOut)
            /\ conv' = [conv EXCEPT ![u].edit = EDIT_AMOUNT]
    /\ UNCHANGED <<expenses, wallets, wallet_members, user_wallet_context,
                   user_data, now, inflight>>

\* an update that leaves out the filter on the id
SetAmountEveryRow(expense_id, new_amount) ==
    {[e EXCEPT !.amount = new_amount] : e \in expenses}

\* the rows of the store after expense.amount = new_amount; session.commit()
SetAmount(expense_id, new_amount) ==
    {IF e.id = expense_id THEN [e EXCEPT !.amount = new_amount] ELSE e
        : e \in expenses}

\* update_expense after new_amount = float(text): ok is FALSE for ValueError
UpdateBranch(u, text, new_amount, expense_id) ==
    IF user_edit_data[u] = None
    THEN /\ last' = Answer(u, "update_expense", text, "nothing_selected", NoOut)
         /\ UNCHANGED <<expenses, user_edit_data>>
    ELSE IF ~new_amount.ok
    THEN /\ last' = Answer(u, "update_expense", text, "invalid_amount", NoOut)
         /\ UNCHANGED <<expenses, user_edit_data>>
    ELSE IF ExpenseById(expense_id) = {}
    THEN /\ last' = Answer(u, "update_expense", text, "not_found", NoOut)
         /\ UNCHANGED <<expenses, user_edit_data>>
    ELSE /\ expenses' = SetAmount(expense_id, new_amount.val)
         /\ user_edit_data' = [user_edit_data EXCEPT ![u] = None]
         /\ last' = Answer(u, "update_expense", text, "updated",
                           [id |-> expense_id, amount |-> new_amount.val])

\* update_expense: the text that answers the edit prompt; every path ends
\* the conversation
UpdateExpense(u, text) ==
    /\ Route(u) = "update_expense"
    /\ conv' = [conv EXCEPT ![u].edit = END]
    /\ UpdateBranch(u, text, ParseFloat(Strip(text)), user_edit_data[u])
    /\ UNCHANGED <<wallets, wallet_members, user_wallet_context, user_data, now, inflight>>

\* delete_expense: the callback delete_<id>
DeleteExpense(u, expense_id) ==
    /\ IF ExpenseById(expense_id) = {}
       THEN /\ last' = Answer(u, "delete_expense", expense_id, "not_found", NoOut)
            /\ UNCHANGED expenses
       ELSE /\ expenses' = expenses \ ExpenseById(expense_id)
            /\ last' = Answer(u, "delete_expense", expense_id, "deleted", NoOut)
    /\ UNCHANGED <<wallets, wallet_members, user_wallet_context, user_edit_data,
                   user_data, conv, now, inflight>>

\* export_handler from the query on
ExportAnswer(u, rows) ==
    Answer(u, "export_handler", NoOut, IF rows = {} THEN "no_expenses" ELSE "csv",
           [rows |-> rows])

\* /export
ExportHandler(u) ==
    /\ last' = ExportAnswer(u, ExportQuery(u))
    /\ UNCHANGED <<expenses, wallets, wallet_members, user_wallet_context,
                   user_edit_data, user_data, conv, now, inflight>>

\* archive_handler from send_or_edit on: what was shown and what was written
Deliver(shown, ud, is_callback, edit_ok) ==
    [shown |-> shown,
     result |-> send_or_edit(ud, shown.text, shown.keyboard, is_callback, edit_ok)]

\* archive_handler run for user u on user_data ud
ArchiveRun(u, ud, is_callback, edit_ok) ==
    Deliver(ArchiveView(u, ud), ud, is_callback, edit_ok)

\* the state left by a handler that ran archive_handler
ArchiveDone(u, handler, input, reply, run) ==
    /\ user_data' = [user_data EXCEPT ![u] = run.result.ud]
    /\ last' = Answer(u, handler, input, reply, run)

\* /archive
ArchiveCommand(u) ==
    /\ ArchiveDone(u, "archive_handler", NoOut, "archive",
                   ArchiveRun(u, user_data[u], FALSE, TRUE))
    /\ UNCHANGED <<expenses, wallets, wallet_members, user_wallet_context,
                   user_edit_data, conv, now, inflight>>

\* a navigation whose switch to the list view keeps the month filter
NavigateKeepsMonth(ud, data) ==
    IF data.kind = "archive_view_list"
    THEN [ud EXCEPT !.view_mode = "list", !.archive_filter_date = NoDate,
                    !.archive_page = 0]
    ELSE IF data.kind = "archive_view_monthly"
    THEN [ud EXCEPT !.view_mode = "monthly", !.archive_filter_date = NoDate,
                    !.filter_month = None, !.archive_page = 0]
    ELSE IF data.kind = "month"
    THEN [ud EXCEPT !.filter_month = data.n, !.view_mode = "list",
                    !.archive_page = 0]
    ELSE IF data.kind = "archive_clear_filter"
    THEN [ud EXCEPT !.archive_filter_date = NoDate, !.filter_month = None,
                    !.archive_page = 0]
    ELSE IF data.kind = "archive_prev"
    THEN [ud EXCEPT !.archive_page = data.n - 1]
    ELSE IF data.kind = "archive_next"
    THEN [ud EXCEPT !.archive_page = data.n + 1]
    ELSE ud

\* a navigation that steps from the stored page instead of the token's page
NavigateFromStored(ud, data) ==
    IF data.kind = "archive_view_monthly"
    THEN [ud EXCEPT !.view_mode = "monthly", !.archive_filter_date = NoDate,
                    !.filter_month = None, !.archive_page = 0]
    ELSE IF data.kind = "archive_view_list"
    THEN [ud EXCEPT !.view_mode = "list", !.archive_filter_date = NoDate,
                    !.filter_month = None, !.archive_page = 0]
    ELSE IF data.kind = "month"
    THEN [ud EXCEPT !.filter_month = data.n, !.view_mode = "list",
                    !.archive_page = 0]
    ELSE IF data.kind = "archive_clear_filter"
    THEN [ud EXCEPT !.archive_filter_date = NoDate, !.filter_month = None,
                    !.archive_page = 0]
    ELSE IF data.kind = "archive_prev"
    THEN [ud EXCEPT !.archive_page = ud.archive_page - 1]
    ELSE IF data.kind = "archive_next"
    THEN [ud EXCEPT !.archive_page = ud.archive_page + 1]
    ELSE ud

\* the user_data writes of archive_navigation for callback data
Navigate(ud, data) ==
    IF data.kind = "archive_view_monthly"
    THEN [ud EXCEPT !.view_mode = "monthly", !.archive_filter_date = NoDate,
                    !.filter_month = None, !.archive_page = 0]
    ELSE IF data.kind = "archive_view_list"
    THEN [ud EXCEPT !.view_mode = "list", !.archive_filter_date = NoDate,
                    !.filter_month = None, !.archive_page = 0]
    ELSE IF data.kind = "month"
    THEN [ud EXCEPT !.filter_month = data.n, !.view_mode = "list",
                    !.archive_page = 0]
    ELSE IF data.kind = "archive_clear_filter"
    THEN [ud EXCEPT !.archive_filter_date = NoDate, !.filter_month = None,
                    !.archive_page = 0]
    ELSE IF data.kind = "archive_prev"
    THEN [ud EXCEPT !.archive_page = data.n - 1]
    ELSE IF data.kind = "archive_next"
    THEN [ud EXCEPT !.archive_page = data.n + 1]
    ELSE ud

\* an archive_navigation that undoes its writes when the edit is refused
ArchiveNavigationRollsBack(u, data, edit_ok) ==
    /\ IF edit_ok
       THEN ArchiveDone(u, "archive_navigation", data, "archive",
                        ArchiveRun(u, Navigate(user_data[u], data), TRUE, edit_ok))
       ELSE /\ last' = Answer(u, "archive_navigation", data, "archive",
                              ArchiveRun(u, Navigate(user_data[u], data), TRUE, edit_ok))
            /\ UNCHANGED user_data
    /\ UNCHANGED <<expenses, wallets, wallet_members, user_wallet_context,
                   user_edit_data, conv, now, inflight>>

\* archive_navigation: the callbacks archive_*, month_*
ArchiveNavigation(u, data, edit_ok) ==
    /\ ArchiveDone(u, "archive_navigation", data, "archive",
                   ArchiveRun(u, Navigate(user_data[u], data), TRUE, edit_ok))
    /\ UNCHANGED <<expenses, wallets, wallet_members, user_wallet_context,
                   user_edit_data, conv, now, inflight>>

\* start_filter_date: the callback archive_filter_date, the entry point of
\* the date-filter conversation (not re-entered while it waits)
StartFilterDate(u) ==
    /\ conv[u].filter_date = END
    /\ conv' = [conv EXCEPT ![u].filter_date = FILTER_DATE]
    /\ last' = Answer(u, "start_filter_date", NoOut, "prompt", NoOut)
    /\ UNCHANGED <<expenses, wallets, wallet_members, user_wallet_context,
                   user_edit_data, user_data, now, inflight>>

\* the user_data writes of process_filter_date for a parsed date
SetFilterDate(ud, filter_date) ==
    [ud EXCEPT !.archive_filter_date = filter_date, !.archive_page = 0]

\* process_filter_date: the text that answers the date prompt
ProcessFilterDate(u, text) ==
    /\ Route(u) = "process_filter_date"
    /\ IF ParseDate(Strip(text)).ok
       THEN /\ ArchiveDone(u, "process_filter_date", text, "filter_set",
                           ArchiveRun(u, SetFilterDate(user_data[u],
                                                       ParseDate(Strip(text)).val),
                                      FALSE, TRUE))
            /\ conv' = [conv EXCEPT ![u].filter_date = END]
       ELSE /\ last' = Answer(u, "process_filter_date", text, "invalid_date", NoOut)
            /\ UNCHANGED <<user_data, conv>>
    /\ UNCHANGED <<expenses, wallets, wallet_members, user_wallet_context,
                   user_edit_data, now, inflight>>

\* a shared_create that takes the first draw without looking it up
SharedCreateFirstDraw(u, random_id) ==
    /\ wallets' = wallets \cup {WalletRow(random_id, u)}
    /\ wallet_members' =
           wallet_members \cup {MemberRow(NextId(wallet_members), random_id, u)}
    /\ user_wallet_context' = [user_wallet_context EXCEPT ![u] = random_id]
    /\ last' = Answer(u, "shared_create", NoOut, "created", [wallet_id |-> random_id])
    /\ UNCHANGED <<expenses, user_edit_data, user_data, conv, now, inflight>>

\* a shared_create that adds no membership row for the creator
SharedCreateNoMember(u, random_id) ==
    /\ \A w \in wallets : w.id # random_id
    /\ wallets' = wallets \cup {WalletRow(random_id, u)}
    /\ user_wallet_context' = [user_wallet_context EXCEPT ![u] = random_id]
    /\ last' = Answer(u, "shared_create", NoOut, "created", [wallet_id |-> random_id])
    /\ UNCHANGED <<expenses, wallet_members, user_edit_data, user_data, conv, now, inflight>>

\* shared_create: the callback shared_create.  random_id is the draw that
\* ends the loop, an identifier no wallet has.
SharedCreate(u, random_id) ==
    /\ \A w \in wallets : w.id # random_id
    /\ wallets' = wallets \cup {WalletRow(random_id, u)}
    /\ wallet_members' =
           wallet_members \cup {MemberRow(NextId(wallet_members), random_id, u)}
    /\ user_wallet_context' = [user_wallet_context EXCEPT ![u] = random_id]
    /\ last' = Answer(u, "shared_create", NoOut, "created", [wallet_id |-> random_id])
    /\ UNCHANGED <<expenses, user_edit_data, user_data, conv, now, inflight>>

\* shared_create up to its loop: the callback shared_create is answered and
\* the session is opened
SharedCreateCalled(u) ==
    /\ inflight = NoTasks
    /\ inflight' =
           [inflight EXCEPT !.tasks[1] =
               [pc |-> "draw", user |-> u, handler |-> "shared_create",
                data |-> NoOut, run |-> NoOut, seq |-> 0]]
    /\ UNCHANGED <<expenses, wallets, wallet_members, user_wallet_context,
                   user_edit_data, user_data, conv, now, last>>

\* one pass of the loop of shared_create, random.randint returning random_id:
\* a wallet with that identifier sends the loop round again, otherwise the
\* loop ends and the rest of the handler runs
SharedCreateDraw(random_id) ==
    /\ inflight.tasks[1].pc = "draw"
    /\ IF \E w \in wallets : w.id = random_id
       THEN UNCHANGED vars
       ELSE /\ wallets' = wallets \cup {WalletRow(random_id, inflight.tasks[1].user)}
            /\ wallet_members' =
                   wallet_members \cup
                       {MemberRow(NextId(wallet_members), random_id,
                                  inflight.tasks[1].user)}
            /\ user_wallet_context' =
                   [user_wallet_context EXCEPT ![inflight.tasks[1].user] = random_id]
            /\ last' = Answer(inflight.tasks[1].user, "shared_create", NoOut,
                              "created", [wallet_id |-> random_id])
            /\ inflight' = NoTasks
            /\ UNCHANGED <<expenses, user_edit_data, user_data, conv, now>>

\* join_wallet_start: the callback shared_join (allow_reentry)
JoinWalletStart(u) ==
    /\ conv' = [conv EXCEPT ![u].join = JOIN_WALLET]
    /\ last' = Answer(u, "join_wallet_start", NoOut, "prompt", NoOut)
    /\ UNCHANGED <<expenses, wallets, wallet_members, user_wallet_context,
                   user_edit_data, user_data, now, inflight>>

\* a join_wallet_id that asks again when the wallet is not found
JoinBranchReprompt(u, text, wallet_id) ==
    IF ~wallet_id.ok
    THEN /\ last' = Answer(u, "join_wallet_id", text, "invalid_wallet_id", NoOut)
         /\ UNCHANGED <<wallet_members, user_wallet_context, conv>>
    ELSE IF \A w \in wallets : w.id # wallet_id.val
    THEN /\ last' = Answer(u, "join_wallet_id", text, "wallet_not_found",
                           [wallet_id |-> wallet_id.val])
         /\ UNCHANGED <<wallet_members, user_wallet_context, conv>>
    ELSE /\ IF is_user_in_wallet(wallet_id.val, u)
            THEN /\ last' = Answer(u, "join_wallet_id", text, "already_member",
                                   [wallet_id |-> wallet_id.val])
                 /\ UNCHANGED wallet_members
            ELSE /\ wallet_members' = wallet_members \cup
                        {MemberRow(NextId(wallet_members), wallet_id.val, u)}
                 /\ last' = Answer(u, "join_wallet_id", text, "joined",
                                   [wallet_id |-> wallet_id.val])
         /\ user_wallet_context' = [user_wallet_context EXCEPT ![u] = wallet_id.val]
         /\ conv' = [conv EXCEPT ![u].join = END]

\* a join_wallet_id that ends the conversation when the text is no integer
JoinBranchAbortsInvalid(u, text, wallet_id) ==
    IF ~wallet_id.ok
    THEN /\ last' = Answer(u, "join_wallet_id", text, "invalid_wallet_id", NoOut)
         /\ conv' = [conv EXCEPT ![u].join = END]
         /\ UNCHANGED <<wallet_members, user_wallet_context>>
    ELSE IF \A w \in wallets : w.id # wallet_id.val
    THEN /\ last' = Answer(u, "join_wallet_id", text, "wallet_not_found",
                           [wallet_id |-> wallet_id.val])
         /\ conv' = [conv EXCEPT ![u].join = END]
         /\ UNCHANGED <<wallet_members, user_wallet_context>>
    ELSE /\ IF is_user_in_wallet(wallet_id.val, u)
            THEN /\ last' = Answer(u, "join_wallet_id", text, "already_member",
                                   [wallet_id |-> wallet_id.val])
                 /\ UNCHANGED wallet_members
            ELSE /\ wallet_members' = wallet_members \cup
                        {MemberRow(NextId(wallet_members), wallet_id.val, u)}
                 /\ last' = Answer(u, "join_wallet_id", text, "joined",
                                   [wallet_id |-> wallet_id.val])
         /\ user_wallet_context' = [user_wallet_context EXCEPT ![u] = wallet_id.val]
         /\ conv' = [conv EXCEPT ![u].join = END]

\* a join_wallet_id that makes the wallet of the text the active one before
\* it looks the wallet up
JoinBranchSetsFirst(u, text, wallet_id) ==
    IF ~wallet_id.ok
    THEN /\ last' = Answer(u, "join_wallet_id", text, "invalid_wallet_id", NoOut)
         /\ UNCHANGED <<wallet_members, user_wallet_context, conv>>
    ELSE IF \A w \in wallets : w.id # wallet_id.val
    THEN /\ last' = Answer(u, "join_wallet_id", text, "wallet_not_found",
                           [wallet_id |-> wallet_id.val])
         /\ user_wallet_context' = [user_wallet_context EXCEPT ![u] = wallet_id.val]
         /\ conv' = [conv EXCEPT ![u].join = END]
         /\ UNCHANGED wallet_members
    ELSE /\ IF is_user_in_wallet(wallet_id.val, u)
            THEN /\ last' = Answer(u, "join_wallet_id", text, "already_member",
                                   [wallet_id |-> wallet_id.val])
                 /\ UNCHANGED wallet_members
            ELSE /\ wallet_members' = wallet_members \cup
                        {MemberRow(NextId(wallet_members), wallet_id.val, u)}
                 /\ last' = Answer(u, "join_wallet_id", text, "joined",
                                   [wallet_id |-> wallet_id.val])
         /\ user_wallet_context' = [user_wallet_context EXCEPT ![u] = wallet_id.val]
         /\ conv' = [conv EXCEPT ![u].join = END]

\* join_wallet_id after wallet_id = int(text): ok is FALSE for ValueError
JoinBranch(u, text, wallet_id) ==
    IF ~wallet_id.ok
    THEN /\ last' = Answer(u, "join_wallet_id", text, "invalid_wallet_id", NoOut)
         /\ UNCHANGED <<wallet_members, user_wallet_context, conv>>
    ELSE IF \A w \in wallets : w.id # wallet_id.val
    THEN /\ last' = Answer(u, "join_wallet_id", text, "wallet_not_found",
                           [wallet_id |-> wallet_id.val])
         /\ conv' = [conv EXCEPT ![u].join = END]
         /\ UNCHANGED <<wallet_members, user_wallet_context>>
    ELSE /\ IF is_user_in_wallet(wallet_id.val, u)
            THEN /\ last' = Answer(u, "join_wallet_id", text, "already_member",
                                   [wallet_id |-> wallet_id.val])
                 /\ UNCHANGED wallet_members
            ELSE /\ wallet_members' = wallet_members \cup
                        {MemberRow(NextId(wallet_members), wallet_id.val, u)}
                 /\ last' = Answer(u, "join_wallet_id", text, "joined",
                                   [wallet_id |-> wallet_id.val])
         /\ user_wallet_context' = [user_wallet_context EXCEPT ![u] = wallet_id.val]
         /\ conv' = [conv EXCEPT ![u].join = END]

\* join_wallet_id: the text that answers the join prompt
JoinWalletId(u, text) ==
    /\ Route(u) = "join_wallet_id"
    /\ JoinBranch(u, text, ParseInt(Strip(text)))
    /\ UNCHANGED <<expenses, wallets, user_edit_data, user_data, now, inflight>>

\* a leave that clears the active wallet of every user
LeaveWalletEveryone(u) ==
    /\ IF user_wallet_context[u] # None
       THEN /\ user_wallet_context' = [v \in Users |-> None]
            /\ last' = Answer(u, "leave_wallet", NoOut, "left", NoOut)
       ELSE /\ last' = Answer(u, "leave_wallet", NoOut, "no_context", NoOut)
            /\ UNCHANGED user_wallet_context
    /\ UNCHANGED <<expenses, wallets, wallet_members, user_edit_data, user_data,
                   conv, now, inflight>>

\* a leave that also deletes the membership rows of the user in the wallet
LeaveWalletRemovesMember(u) ==
    /\ IF user_wallet_context[u] # None
       THEN /\ user_wallet_context' = [user_wallet_context EXCEPT ![u] = None]
            /\ wallet_members' =
                   {m \in wallet_members :
                       ~(m.user_id = u /\ m.wallet_id = user_wallet_context[u])}
            /\ last' = Answer(u, "leave_wallet", NoOut, "left", NoOut)
       ELSE /\ last' = Answer(u, "leave_wallet", NoOut, "no_context", NoOut)
            /\ UNCHANGED <<user_wallet_context, wallet_members>>
    /\ UNCHANGED <<expenses, wallets, user_edit_data, user_data, conv, now, inflight>>

\* /leave
LeaveWallet(u) ==
    /\ IF user_wallet_context[u] # None
       THEN /\ user_wallet_context' = [user_wallet_context EXCEPT ![u] = None]
            /\ last' = Answer(u, "leave_wallet", NoOut, "left", NoOut)
       ELSE /\ last' = Answer(u, "leave_wallet", NoOut, "no_context", NoOut)
            /\ UNCHANGED user_wallet_context
    /\ UNCHANGED <<expenses, wallets, wallet_members, user_edit_data, user_data,
                   conv, now, inflight>>

-----------------------------------------------------------------------------
(* The updates a client can send: a callback query carries the data of a     *)
(* button of a message the bot sent; a text goes to the first registered     *)
(* handler that accepts it.                                                   *)

\* the buttons user u has before the eyes: those of the reply to the user's
\* last event and those of the archive message rendered last
Offered(u) ==
    (IF last.user = u /\ "keyboard" \in DOMAIN last.out
     THEN UNION {SeqToSet(last.out.keyboard[i]) : i \in 1 .. Len(last.out.keyboard)}
     ELSE {})
    \cup UNION {SeqToSet(user_data[u].last_archive_keyboard[i]) :
                   i \in 1 .. Len(user_data[u].last_archive_keyboard)}

\* the callback handlers of main by pattern
Press(u, data) ==
    IF data.kind = "archive_filter_date" THEN StartFilterDate(u)
    ELSE IF data.kind \in {"archive_prev", "archive_next", "archive_clear_filter",
                           "archive_view_monthly", "archive_view_list", "month"}
    THEN ArchiveNavigation(u, data, TRUE)
    ELSE IF data.kind = "cat" THEN CategoryBreakdown(u, data.s)
    ELSE IF data.kind = "delete" THEN DeleteExpense(u, data.n)
    ELSE IF data.kind = "shared_create"
    THEN \E random_id \in WalletIds : SharedCreate(u, random_id)
    ELSE IF data.kind = "edit" THEN EditExpense(u, data.n)
    ELSE IF data.kind = "shared_join" THEN JoinWalletStart(u)
    ELSE FALSE

\* a text message that is not a command, by the handler that takes it
Text(u, text) ==
    IF Route(u) = "process_filter_date" THEN ProcessFilterDate(u, text)
    ELSE IF Route(u) = "update_expense" THEN UpdateExpense(u, text)
    ELSE IF Route(u) = "join_wallet_id" THEN JoinWalletId(u, text)
    ELSE ExpenseHandler(u, text)

-----------------------------------------------------------------------------
(* Time *)

\* the clock at the start of the model: 2025-03-01, last tick of the day
SeedNow == 6 * TicksPerMonth + TicksPerDay - 1
MaxNow == SeedNow + MaxTicks

-----------------------------------------------------------------------------
(* The archive handlers as coroutines.  A handler runs without interruption  *)
(* from one await to the next; between two awaits of one handler the event   *)
(* loop may run a section of another.                                        *)

\* archive_navigation or /archive run on user_data ud, from the writes of
\* the handler to the snapshot that send_or_edit stores
Handle(u, ud, handler, data) ==
    IF handler = "archive_navigation"
    THEN ArchiveRun(u, Navigate(ud, data), TRUE, TRUE)
    ELSE ArchiveRun(u, ud, FALSE, TRUE)

\* the sections that have run since the first of the events arrived
SectionsRun == Cardinality({s \in Slots : inflight.tasks[s].pc \in {"transport", "done"}})

\* an update arrives and its handler starts: archive_navigation waits for
\* query.answer(), /archive has no await before its section.  Slot 1 takes
\* the first event.
Receive(u, s, handler, data) ==
    /\ inflight.tasks[s].pc = "idle"
    /\ s = 2 => inflight.tasks[1].pc # "idle"
    /\ inflight' =
           [base |-> IF s = 1 THEN user_data[u] ELSE inflight.base,
            tasks |-> [inflight.tasks EXCEPT ![s] =
                          [pc |-> IF handler = "archive_navigation"
                                  THEN "answer" ELSE "run",
                           user |-> u, handler |-> handler, data |-> data,
                           run |-> NoOut, seq |-> 0]]]
    /\ UNCHANGED <<expenses, wallets, wallet_members, user_wallet_context,
                   user_edit_data, user_data, conv, now, last>>

\* await query.answer() returns
AnswerReturned(s) ==
    /\ inflight.tasks[s].pc = "answer"
    /\ inflight' = [inflight EXCEPT !.tasks[s].pc = "run"]
    /\ UNCHANGED <<expenses, wallets, wallet_members, user_wallet_context,
                   user_edit_data, user_data, conv, now, last>>

\* a section that works on the user_data found when the first event arrived
RunSectionStale(s) ==
    /\ inflight.tasks[s].pc = "run"
    /\ user_data' =
           [user_data EXCEPT ![inflight.tasks[s].user] =
               Handle(inflight.tasks[s].user, inflight.base,
                      inflight.tasks[s].handler, inflight.tasks[s].data).result.ud]
    /\ inflight' =
           [inflight EXCEPT
               !.tasks[s].pc = "transport",
               !.tasks[s].seq = SectionsRun,
               !.tasks[s].run =
                   Handle(inflight.tasks[s].user, inflight.base,
                          inflight.tasks[s].handler, inflight.tasks[s].data)]
    /\ UNCHANGED <<expenses, wallets, wallet_members, user_wallet_context,
                   user_edit_data, conv, now, last>>

\* the section of a handler between its awaits: the writes of
\* archive_navigation, the reads and the query of archive_handler, and
\* send_or_edit up to its edit_text or reply_text (or its return, when the
\* render equals the snapshot)
RunSection(s) ==
    /\ inflight.tasks[s].pc = "run"
    /\ user_data' =
           [user_data EXCEPT ![inflight.tasks[s].user] =
               Handle(inflight.tasks[s].user, user_data[inflight.tasks[s].user],
                      inflight.tasks[s].handler, inflight.tasks[s].data).result.ud]
    /\ inflight' =
           [inflight EXCEPT
               !.tasks[s].pc = "transport",
               !.tasks[s].seq = SectionsRun,
               !.tasks[s].run =
                   Handle(inflight.tasks[s].user, user_data[inflight.tasks[s].user],
                          inflight.tasks[s].handler, inflight.tasks[s].data)]
    /\ UNCHANGED <<expenses, wallets, wallet_members, user_wallet_context,
                   user_edit_data, conv, now, last>>

\* await edit_text / reply_text returns (at once when nothing was written)
\* and the handler ends
TransportReturned(s) ==
    /\ inflight.tasks[s].pc = "transport"
    /\ inflight' = [inflight EXCEPT !.tasks[s].pc = "done"]
    /\ last' = Answer(inflight.tasks[s].user, inflight.tasks[s].handler,
                      inflight.tasks[s].data, "archive", inflight.tasks[s].run)
    /\ UNCHANGED <<expenses, wallets, wallet_members, user_wallet_context,
                   user_edit_data, user_data, conv, now>>

\* both handlers have ended; the next events find no coroutine waiting
Settle ==
    /\ \A s \in Slots : inflight.tasks[s].pc = "done"
    /\ inflight' = NoTasks
    /\ UNCHANGED <<expenses, wallets, wallet_members, user_wallet_context,
                   user_edit_data, user_data, conv, now, last>>

\* a restart that keeps the active wallets of the users
RestartKeepsWallet ==
    /\ user_edit_data' = [u \in Users |-> None]
    /\ user_data' = [u \in Users |-> DefaultUserData]
    /\ conv' = [u \in Users |-> DefaultConv]
    /\ last' = Answer(0, "restart", NoOut, "restarted", NoOut)
    /\ UNCHANGED <<expenses, wallets, wallet_members, user_wallet_context, now, inflight>>

\* the process is stopped and started again: the module's dictionaries are
\* created empty, the application is built without persistence (empty
\* user_data, every conversation in its initial state); the database stays
Restart ==
    /\ user_wallet_context' = [u \in Users |-> None]
    /\ user_edit_data' = [u \in Users |-> None]
    /\ user_data' = [u \in Users |-> DefaultUserData]
    /\ conv' = [u \in Users |-> DefaultConv]
    /\ last' = Answer(0, "restart", NoOut, "restarted", NoOut)
    /\ UNCHANGED <<expenses, wallets, wallet_members, now, inflight>>

\* time passes between two events
Tick ==
    /\ now < MaxNow
    /\ now' = now + 1
    /\ UNCHANGED <<expenses, wallets, wallet_members, user_wallet_context,
                   user_edit_data, user_data, conv, last, inflight>>

-----------------------------------------------------------------------------
(* Inputs: the texts users send and the controls they press *)

TxtB5 == <<"B", "-", "5">>
TxtB3 == <<"B", "-", "3">>
TxtF2 == <<" ", "F", " ", "2">>
TxtDaily == <<"D", "a", "i", "l", "y">>
TxtMonthly == <<"m", "o", "n", "t", "h", "l", "y", " ", "r", "e", "p", "o", "r", "t">>
TxtSharing == PhraseSharing
TxtWord == <<"a", "b", "c">>
Txt4 == <<"4">>
TxtWalletA == <<"1", "0", "0", "0", "0">>
TxtWalletB == <<"1", "0", "0", "0", "1">>
TxtNoWallet == <<"7", "7">>
TxtToday == <<"2", "0", "2", "5", "-", "0", "3", "-", "0", "1">>
TxtFeb == <<"2", "0", "2", "5", "-", "2", "-", "1">>
TxtBadDate == <<"2", "0", "2", "5", "-", "1", "3", "-", "0", "1">>

TxtShared == <<"s", "h", "a", "r", "e", "d">>
TxtDailyUpper == <<"D", "A", "I", "L", "Y", " ", "R", "E", "P", "O", "R", "T">>
TxtDailyHebrew == <<"dalet", "vav", "het", " ", "yod", "vav", "mem", "yod">>
TxtMonthlyHebrew == <<"dalet", "vav", "het", " ", "het", "vav", "dalet", "shin", "yod">>
TxtNoDigits == <<"B", "-", "x">>
TxtTwoDots == <<"B", " ", "1", ".", "2", ".", "3">>

CatB == <<"B">>
CatF == <<"F">>

\* a ledger left by earlier runs: user 1 recorded seven personal expenses,
\* one in each month from 2024-09 to 2025-01 and two in 2025-02, and user 2
\* one personal expense in 2025-02
ArchiveSeed ==
    {ExpenseRow(k + 1, 1, IF k % 2 = 0 THEN CatB ELSE CatF, 10 * (k + 1),
                k * TicksPerMonth + (k % TicksPerMonth), None) : k \in 0 .. 5}
    \cup {ExpenseRow(7, 1, CatB, 20, 6 * TicksPerMonth - 1, None),
          ExpenseRow(8, 2, CatF, 30, 6 * TicksPerMonth - 1, None)}

NavControls ==
    {BtnPlain("archive_view_monthly"), BtnPlain("archive_view_list"),
     BtnPlain("archive_clear_filter")}
    \cup {BtnNum("month", k) : k \in {202502, 202503}}
    \cup {BtnNum("archive_prev", p) : p \in 1 .. MaxTokenPage}
    \cup {BtnNum("archive_next", p) : p \in 0 .. MaxTokenPage}

-----------------------------------------------------------------------------
(* Specifications *)

\* expense_handler would insert a row for this text
Records(text) == Classify(text) = "expense" /\ ParseExpense(text).result = "ok"

\* the ledger has room for the row a text would insert
HasRoom(text, rows) == Records(text) => Cardinality(expenses) < rows

InitSession ==
    /\ user_wallet_context = [u \in Users |-> None]
    /\ user_edit_data = [u \in Users |-> None]
    /\ user_data = [u \in Users |-> DefaultUserData]
    /\ conv = [u \in Users |-> DefaultConv]
    /\ now = SeedNow
    /\ inflight = NoTasks
    /\ last = Answer(0, "none", NoOut, "none", NoOut)

\* the archive of a user with a ledger of several months
InitArchive ==
    /\ expenses = ArchiveSeed
    /\ wallets = {}
    /\ wallet_members = {}
    /\ InitSession

NextArchive ==
    \/ \E u \in {1} : ArchiveCommand(u)
    \/ \E u \in {1}, data \in NavControls, edit_ok \in BOOLEAN :
           ArchiveNavigation(u, data, edit_ok)
    \/ \E u \in {1} : StartFilterDate(u)
    \/ \E u \in {1}, text \in {TxtFeb, TxtBadDate} : ProcessFilterDate(u, text)
    \/ \E u \in {1}, text \in {TxtB5} :
           HasRoom(text, MaxArchiveRows) /\ ExpenseHandler(u, text)
    \/ \E u \in {1}, id \in {7} : DeleteExpense(u, id)

SpecArchive == InitArchive /\ [][NextArchive]_vars

\* a store left by earlier runs: wallet 10000 of user 2, joined by user 1,
\* and one personal expense of user 1 of 2025-02
LedgerSeed == {ExpenseRow(1, 1, CatB, 10, 6 * TicksPerMonth - 1, None)}
WalletSeed == {WalletRow(WalletIdMin, 2)}
MemberSeed == {MemberRow(1, WalletIdMin, 2), MemberRow(2, WalletIdMin, 1)}

\* recording, reporting, editing and deleting in a personal and a wallet scope
InitLedger ==
    /\ expenses = LedgerSeed
    /\ wallets = WalletSeed
    /\ wallet_members = MemberSeed
    /\ user_wallet_context \in
           {[u \in Users |-> None], [u \in Users |-> WalletIdMin],
            [u \in Users |-> IF u = 1 THEN None ELSE WalletIdMin]}
    /\ user_edit_data = [u \in Users |-> None]
    /\ user_data = [u \in Users |-> DefaultUserData]
    /\ conv = [u \in Users |-> DefaultConv]
    /\ now = SeedNow
    /\ inflight = NoTasks
    /\ last = Answer(0, "none", NoOut, "none", NoOut)

NextLedger ==
    \/ \E u \in {1}, text \in {TxtB5, TxtF2, TxtDaily, TxtMonthly} :
           HasRoom(text, MaxLedgerRows) /\ ExpenseHandler(u, text)
    \/ \E u \in {2}, text \in {TxtB3} :
           HasRoom(text, MaxLedgerRows) /\ ExpenseHandler(u, text)
    \/ \E u \in {1}, category \in {CatB} : CategoryBreakdown(u, category)
    \/ \E u \in {1}, id \in 1 .. 2 : EditExpense(u, id)
    \/ \E u \in {1}, text \in {Txt4, TxtWord} : UpdateExpense(u, text)
    \/ \E u \in {1}, id \in 2 .. 3 : DeleteExpense(u, id)
    \/ Tick

SpecLedger == InitLedger /\ [][NextLedger]_vars

\* what the queries of a user show while both users record
NextScope ==
    \/ \E u \in Users, text \in {TxtB5} :
           HasRoom(text, MaxLedgerRows) /\ ExpenseHandler(u, text)
    \/ \E u \in {1}, text \in {TxtDaily, TxtMonthly} : ExpenseHandler(u, text)
    \/ \E u \in {1} : ExportHandler(u)
    \/ \E u \in {1} : ArchiveCommand(u)
    \/ \E u \in {1} : JoinWalletStart(u)
    \/ \E u \in {1}, text \in {TxtWalletA} : JoinWalletId(u, text)
    \/ \E u \in {1} : LeaveWallet(u)
    \/ \E u \in {1}, id \in {2} : DeleteExpense(u, id)
    \/ Tick

SpecScope == InitLedger /\ [][NextScope]_vars

\* the guided flows of one user and the texts that answer them
FlowTexts == {TxtB5, TxtDaily, TxtSharing, Txt4, TxtWalletA, TxtFeb}

NextFlows ==
    \/ \E u \in {1}, id \in 1 .. 2 : EditExpense(u, id)
    \/ \E u \in {1} : JoinWalletStart(u)
    \/ \E u \in {1}, text \in FlowTexts : UpdateExpense(u, text)
    \/ \E u \in {1}, text \in FlowTexts : JoinWalletId(u, text)
    \/ \E u \in {1}, text \in FlowTexts :
           HasRoom(text, MaxLedgerRows) /\ ExpenseHandler(u, text)
    \/ \E u \in {1} : StartFilterDate(u)
    \/ \E u \in {1}, text \in FlowTexts : ProcessFilterDate(u, text)

SpecFlows == InitLedger /\ [][NextFlows]_vars

\* replies to the edit prompt with a sign, and a record text with two dashes
TxtMinus4 == <<"-", "4">>
TxtBMinus5 == <<"B", "-", "-", "5">>

\* recording and editing amounts with signed and unsigned texts
NextAmounts ==
    \/ \E u \in {1}, text \in {TxtB5, TxtBMinus5, TxtF2} :
           HasRoom(text, MaxLedgerRows) /\ ExpenseHandler(u, text)
    \/ \E u \in {1}, id \in 1 .. 2 : EditExpense(u, id)
    \/ \E u \in {1}, text \in {Txt4, TxtMinus4, TxtWord} : UpdateExpense(u, text)
    \/ Tick

SpecAmounts == InitLedger /\ [][NextAmounts]_vars

\* the free texts of users outside every guided flow
PhraseTexts ==
    {TxtB5, TxtDaily, TxtDailyUpper, TxtDailyHebrew, TxtMonthly, TxtMonthlyHebrew,
     TxtSharing, TxtShared, TxtWord, Txt4, TxtNoDigits, TxtTwoDots}

NextPhrases ==
    \/ \E u \in {1}, text \in PhraseTexts :
           HasRoom(text, MaxLedgerRows) /\ ExpenseHandler(u, text)
    \/ \E u \in {2}, text \in {TxtB5} :
           HasRoom(text, MaxLedgerRows) /\ ExpenseHandler(u, text)
    \/ \E u \in {1}, data \in {BtnPlain("archive_view_monthly"),
                               BtnPlain("archive_view_list")} :
           ArchiveNavigation(u, data, TRUE)
    \/ \E u \in {1} : LeaveWallet(u)
    \/ Tick

SpecPhrases == InitLedger /\ [][NextPhrases]_vars

\* two users with sessions of their own.  User 2 has joined wallet 10000,
\* pressed Edit on transaction 1 and switched the archive to the monthly
\* view; user 1 starts afresh and uses every kind of event.
InitSessions ==
    /\ expenses = LedgerSeed
    /\ wallets = WalletSeed
    /\ wallet_members = MemberSeed
    /\ user_wallet_context = [u \in Users |-> IF u = 2 THEN WalletIdMin ELSE None]
    /\ user_edit_data = [u \in Users |-> IF u = 2 THEN 1 ELSE None]
    /\ now = SeedNow
    /\ inflight = NoTasks
    /\ user_data =
           [u \in Users |->
               IF u = 2
               THEN send_or_edit(
                        Navigate(DefaultUserData, BtnPlain("archive_view_monthly")),
                        ArchiveView(u, Navigate(DefaultUserData,
                                                BtnPlain("archive_view_monthly"))).text,
                        ArchiveView(u, Navigate(DefaultUserData,
                                                BtnPlain("archive_view_monthly"))).keyboard,
                        TRUE, TRUE).ud
               ELSE DefaultUserData]
    /\ conv = [u \in Users |->
                  IF u = 2 THEN [DefaultConv EXCEPT !.edit = EDIT_AMOUNT]
                  ELSE DefaultConv]
    /\ last = Answer(0, "none", NoOut, "none", NoOut)

NextSessions ==
    \/ \E u \in {1}, text \in {TxtB5} :
           HasRoom(text, MaxWalletRows) /\ ExpenseHandler(u, text)
    \/ \E u \in {1}, data \in {BtnPlain("archive_view_monthly"),
                               BtnNum("month", 202502)} :
           ArchiveNavigation(u, data, TRUE)
    \/ \E u \in {1} : ArchiveCommand(u)
    \/ \E u \in {1} : StartFilterDate(u)
    \/ \E u \in {1}, text \in {TxtFeb} : ProcessFilterDate(u, text)
    \/ \E u \in {1}, id \in {1} : EditExpense(u, id)
    \/ \E u \in {1}, text \in {Txt4} : UpdateExpense(u, text)
    \/ \E u \in {1}, id \in {2} : DeleteExpense(u, id)
    \/ \E u \in {1}, random_id \in {WalletIdMin + 1} : SharedCreate(u, random_id)
    \/ \E u \in Users : JoinWalletStart(u)
    \/ \E u \in {1}, text \in {TxtWalletA} : JoinWalletId(u, text)
    \/ \E u \in Users : LeaveWallet(u)
    \/ \E u \in {1} : ExportHandler(u)
    \/ \E u \in {1}, category \in {CatB} : CategoryBreakdown(u, category)

SpecSessions == InitSessions /\ [][NextSessions]_vars

\* the session of user 2 (active wallet, pending edit, monthly view) is lost
\* in a restart; the user then sends texts and presses controls of messages
\* from before the restart
NextRestart ==
    \/ Restart
    \/ \E u \in {2} : ArchiveCommand(u)
    \/ \E u \in {2}, data \in {BtnPlain("archive_view_monthly"),
                               BtnNum("month", 202503), BtnNum("archive_next", 0)} :
           ArchiveNavigation(u, data, TRUE)
    \/ \E u \in {2}, text \in {TxtB5, Txt4, TxtMonthly} :
           HasRoom(text, MaxLedgerRows) /\ ExpenseHandler(u, text)
    \/ \E u \in {2}, id \in {1} : EditExpense(u, id)
    \/ \E u \in {2}, text \in {Txt4} : UpdateExpense(u, text)
    \/ \E u \in {2}, id \in {1} : DeleteExpense(u, id)

SpecRestart == InitSessions /\ [][NextRestart]_vars

\* two events of one user whose handlers are in flight together: presses of
\* archive controls and /archive, over the ledger of several months
ConcurrentControls ==
    {BtnNum("archive_next", 0), BtnNum("archive_prev", 1),
     BtnPlain("archive_view_monthly"), BtnNum("month", 202502),
     BtnPlain("archive_clear_filter")}

NextConcurrent ==
    \/ \E u \in {1}, s \in Slots, data \in ConcurrentControls :
           Receive(u, s, "archive_navigation", data)
    \/ \E u \in {1}, s \in Slots : Receive(u, s, "archive_handler", NoOut)
    \/ \E s \in Slots : AnswerReturned(s)
    \/ \E s \in Slots : RunSection(s)
    \/ \E s \in Slots : TransportReturned(s)
    \/ Settle

SpecConcurrent == InitArchive /\ [][NextConcurrent]_vars

\* a ledger left by earlier runs: six personal expenses of user 1 of
\* 2025-03-01
OfferedSeed ==
    {ExpenseRow(k, 1, CatB, 10 * k, 6 * TicksPerMonth, None) : k \in 1 .. 6}

InitOffered ==
    /\ expenses = OfferedSeed
    /\ wallets = {}
    /\ wallet_members = {}
    /\ InitSession

\* one user who sends /archive, /leave, texts, and presses only buttons of
\* messages the bot has sent (of the Edit and Delete buttons, those of
\* transaction 6)
NextOffered ==
    \/ \E u \in {1} : ArchiveCommand(u)
    \/ \E u \in {1} : \E data \in Offered(u) :
           (data.kind \in {"edit", "delete"} => data.n = 6) /\ Press(u, data)
    \/ \E u \in {1}, text \in {TxtMonthly, TxtSharing, Txt4} : Text(u, text)
    \/ \E u \in {1} : LeaveWallet(u)

SpecOffered == InitOffered /\ [][NextOffered]_vars

\* the user of SpecOffered goes on sending texts, and presses the control
\* that asks for a date if it is offered again and again
SpecOfferedFair ==
    /\ SpecOffered
    /\ WF_vars(\E text \in {TxtMonthly, TxtSharing, Txt4} : Text(1, text))
    /\ SF_vars(\E data \in Offered(1) :
                   data.kind = "archive_filter_date" /\ Press(1, data))

\* wallets and scopes, from an empty store
Init ==
    /\ expenses = {}
    /\ wallets = {}
    /\ wallet_members = {}
    /\ InitSession

Next ==
    \/ \E u \in Users, text \in {TxtB5} :
           HasRoom(text, MaxWalletRows) /\ ExpenseHandler(u, text)
    \/ \E u \in {1}, id \in {1} : EditExpense(u, id)
    \/ \E u \in {1}, text \in {Txt4} : UpdateExpense(u, text)
    \/ \E u \in Users, random_id \in WalletIds : SharedCreate(u, random_id)
    \/ \E u \in Users : JoinWalletStart(u)
    \/ \E u \in Users, text \in {TxtWalletA, TxtNoWallet} : JoinWalletId(u, text)
    \/ \E u \in Users : LeaveWallet(u)

Spec == Init /\ [][Next]_vars

\* wallets are created draw by draw, joined and left, and the process is
\* restarted; no other handler runs while the loop of shared_create runs (it
\* has no await).  random.randint keeps returning every identifier of its
\* range.
NextCreate ==
    \/ \E u \in Users : SharedCreateCalled(u)
    \/ \E random_id \in WalletIds : SharedCreateDraw(random_id)
    \/ \E u \in Users : inflight = NoTasks /\ JoinWalletStart(u)
    \/ \E u \in Users, text \in {TxtWalletA, TxtNoWallet} :
           inflight = NoTasks /\ JoinWalletId(u, text)
    \/ \E u \in Users : inflight = NoTasks /\ LeaveWallet(u)
    \/ inflight = NoTasks /\ Restart

SpecCreate ==
    /\ Init
    /\ [][NextCreate]_vars
    /\ \A random_id \in WalletIds : WF_vars(SharedCreateDraw(random_id))

-----------------------------------------------------------------------------
(* Properties *)

\* the event handled last ran archive_handler to its end
Rendered == last.reply \in {"archive", "filter_set"}

\* the transactions of the scope of user u: those of the active wallet, or
\* the user's own that have no wallet
InScope(e, u) ==
    IF user_wallet_context[u] # None
    THEN e.wallet_id = user_wallet_context[u]
    ELSE e.user_id = u /\ e.wallet_id = None

\* the event handled last was a press of one of the two view controls
ViewSwitched ==
    /\ last.handler = "archive_navigation"
    /\ last.input.kind \in {"archive_view_monthly", "archive_view_list"}

\* C1: after archive_view_monthly or archive_view_list the acting user has
\* no day filter, no month filter, page 0 and the requested view mode.
C1_ViewSwitchResets ==
    ViewSwitched =>
        /\ user_data[last.user].archive_filter_date = NoDate
        /\ user_data[last.user].filter_month = None
        /\ user_data[last.user].archive_page = 0
        /\ user_data[last.user].view_mode =
               (IF last.input.kind = "archive_view_monthly" THEN "monthly" ELSE "list")

\* C1 witness: the list control was pressed while the list was already shown
\* with nothing to change on screen (the render was skipped as identical)
C1_Witness ==
    /\ ViewSwitched
    /\ last.input.kind = "archive_view_list"
    /\ last.out.result.transport = "skipped"

\* the number of items an archive render paginates: the filtered
\* transactions in list mode, the distinct months in monthly mode
RenderCount ==
    IF last.out.shown.view = "monthly"
    THEN Cardinality({MonthIndex(last.out.shown.query[i].timestamp) :
                         i \in 1 .. Len(last.out.shown.query)})
    ELSE Len(last.out.shown.query)

\* C2: every archive render has total_pages = ceil(C / 5); the page shown is
\* the stored page clamped into [0, total_pages - 1] when C > 0 and page 0
\* with no rows when C = 0.
C2_Pagination ==
    Rendered =>
        /\ last.out.shown.count = RenderCount
        /\ last.out.shown.total_pages * 5 >= RenderCount
        /\ (last.out.shown.total_pages - 1) * 5 < RenderCount
        /\ RenderCount > 0 =>
             /\ last.out.shown.page >= 0
             /\ last.out.shown.page <= last.out.shown.total_pages - 1
             /\ \/ last.out.shown.page = user_data[last.user].archive_page
                \/ /\ user_data[last.user].archive_page < 0
                   /\ last.out.shown.page = 0
                \/ /\ user_data[last.user].archive_page > last.out.shown.total_pages - 1
                   /\ last.out.shown.page = last.out.shown.total_pages - 1
        /\ RenderCount = 0 =>
             /\ last.out.shown.page = 0
             /\ last.out.shown.text.lines = <<>>

\* C2 witness: a render over more than one page whose stored page lies past
\* the last page
C2_Witness ==
    /\ Rendered
    /\ RenderCount > 5
    /\ user_data[last.user].archive_page > last.out.shown.total_pages - 1
    /\ last.out.shown.page = 1

\* the transactions of the acting user's scope in the calendar month of ts
SameMonth(ts) ==
    {e \in expenses : InScope(e, last.user) /\ MonthIndex(e.timestamp) = MonthIndex(ts)}

\* the transactions of the acting user's scope under month key k
Bucket(k) ==
    {e \in expenses : InScope(e, last.user) /\ MonthKey(e.timestamp) = k}

\* the calendar months of the acting user's scope that are later than that of
\* the transactions under key k
LaterMonths(k) ==
    {MonthIndex(e.timestamp) : e \in {x \in expenses :
        /\ InScope(x, last.user)
        /\ \A b \in Bucket(k) : MonthIndex(x.timestamp) > MonthIndex(b.timestamp)}}

\* C3: in monthly mode each listed month is the bucket of exactly the
\* transactions of the scope in one UTC calendar month, with their number
\* and the sum of their amounts, and the months are listed newest first.
C3_MonthlyBuckets ==
    (Rendered /\ last.out.shown.view = "monthly") =>
        /\ last.out.shown.count =
               Cardinality({MonthIndex(e.timestamp) :
                               e \in {x \in expenses : InScope(x, last.user)}})
        /\ \A i \in 1 .. Len(last.out.shown.text.lines) :
             /\ Bucket(last.out.shown.text.lines[i].month) # {}
             /\ \A b \in Bucket(last.out.shown.text.lines[i].month) :
                    SameMonth(b.timestamp) = Bucket(last.out.shown.text.lines[i].month)
             /\ last.out.shown.text.lines[i].count =
                    Cardinality(Bucket(last.out.shown.text.lines[i].month))
             /\ last.out.shown.text.lines[i].total =
                    SumAmounts(Bucket(last.out.shown.text.lines[i].month))
             /\ Cardinality(LaterMonths(last.out.shown.text.lines[i].month)) =
                    last.out.shown.page * 5 + i - 1

\* C3 witness: a monthly render lists a month that holds two transactions
\* of different days
C3_Witness ==
    /\ Rendered
    /\ last.out.shown.view = "monthly"
    /\ \E i \in 1 .. Len(last.out.shown.text.lines) :
         /\ last.out.shown.text.lines[i].count = 2
         /\ \E a, b \in Bucket(last.out.shown.text.lines[i].month) :
                DayOf(a.timestamp) # DayOf(b.timestamp)

\* C4: a successful edit-amount flow changes only the amount of the targeted
\* transaction: its id, owner, category, wallet and timestamp, every other
\* transaction, and every wallet and membership stay as they were.
C4_EditOnlyAmount ==
    [][\A u \in Users :
          ( /\ conv[u].edit = EDIT_AMOUNT
            /\ last'.user = u
            /\ last'.handler = "update_expense"
            /\ last'.reply = "updated" ) =>
              /\ \E t \in expenses :
                   /\ t.id = user_edit_data[u]
                   /\ expenses' = (expenses \ {t})
                                    \cup {[t EXCEPT !.amount = last'.out.amount]}
              /\ wallets' = wallets
              /\ wallet_members' = wallet_members]_vars

\* C4 witness: a user has set the amount of a transaction that another user
\* recorded, while the ledger holds other transactions
C4_Witness ==
    /\ last.handler = "update_expense"
    /\ last.reply = "updated"
    /\ \E t \in expenses : /\ t.id = last.out.id
                           /\ t.amount = last.out.amount
                           /\ t.user_id # last.user
    /\ Cardinality(expenses) > 1

\* C5: deleting a transaction id that no transaction has is answered with
\* not found and leaves transactions, wallets and memberships as they were.
C5_DeleteMissing ==
    [][( /\ last'.handler = "delete_expense"
         /\ last' # last
         /\ \A e \in expenses : e.id # last'.input ) =>
           /\ last'.reply = "not_found"
           /\ expenses' = expenses
           /\ wallets' = wallets
           /\ wallet_members' = wallet_members]_vars

\* C5 witness: a delete of an id that no transaction has, answered while
\* the ledger holds transactions
C5_Witness ==
    /\ last.handler = "delete_expense"
    /\ last.reply = "not_found"
    /\ \A e \in expenses : e.id # last.input
    /\ expenses # {}

\* the step handles the text with which user u answers the join prompt
JoinStep(u) ==
    /\ conv[u].join = JOIN_WALLET
    /\ last'.user = u
    /\ last'.handler = "join_wallet_id"

\* the membership rows of user u in wallet w among rows
RowsOf(rows, w, u) == {m \in rows : m.wallet_id = w /\ m.user_id = u}

\* C6 (amended): a join flow completed for an existing wallet w leaves
\* exactly one membership row (w, user) and sets the user's active wallet to
\* w; it reports "joined" when the user had no row before the call and
\* "already a member" when the user had one (from an earlier join or from
\* creating the wallet); no other membership row and no wallet changes.
C6_JoinIdempotent ==
    [][\A u \in Users : \A w \in wallets :
          (JoinStep(u) /\ ParseInt(Strip(last'.input)) = Ok(w.id)) =>
              /\ Cardinality(RowsOf(wallet_members', w.id, u)) = 1
              /\ last'.reply = (IF RowsOf(wallet_members, w.id, u) = {}
                                THEN "joined" ELSE "already_member")
              /\ user_wallet_context'[u] = w.id
              /\ wallet_members' \ RowsOf(wallet_members', w.id, u) =
                     wallet_members \ RowsOf(wallet_members, w.id, u)
              /\ wallets' = wallets]_vars

\* C6 witness: a user who joined the wallet of another user completes the
\* join flow for it again
C6_Witness ==
    /\ last.handler = "join_wallet_id"
    /\ last.reply = "already_member"
    /\ \E w \in wallets : w.id = last.out.wallet_id /\ w.owner_id # last.user
    /\ Cardinality(RowsOf(wallet_members, last.out.wallet_id, last.user)) = 1

\* C6 as stated: the first completed join of a user reports "joined" and
\* only later ones "already a member"; so "already a member" is reported
\* only to a user whose membership row an earlier join added, never to the
\* user whose row the creation of the wallet added.
C6_FirstCallJoins ==
    (last.handler = "join_wallet_id" /\ last.reply = "already_member") =>
        \A w \in wallets : w.id = last.out.wallet_id => w.owner_id # last.user

\* the transactions of the scope of user u
ScopeOf(u) == {e \in expenses : InScope(e, u)}

\* transaction e is dated in the period of a report asked at time t
InPeriod(e, period, t) ==
    IF period = "daily"
    THEN e.timestamp \div TicksPerDay >= t \div TicksPerDay
    ELSE MonthIndex(e.timestamp) >= MonthIndex(t)

\* C7 (amended): an unfiltered archive and an export show exactly the
\* transactions of the scope of the user (those recorded into the active
\* wallet by any member, or the user's own without a wallet), each once; a
\* report shows exactly those of them dated in its period.
C7_ScopeVisibility ==
    /\ last.handler = "export_handler" => last.out.rows = ScopeOf(last.user)
    /\ last.handler = "archive_handler" =>
         /\ SeqToSet(last.out.shown.query) = ScopeOf(last.user)
         /\ Len(last.out.shown.query) = Cardinality(ScopeOf(last.user))
    /\ last.handler = "report_handler" =>
         last.out.rows =
             {e \in ScopeOf(last.user) : InPeriod(e, last.input, last.at)}

\* C7 witness: the archive of a user in a wallet shows a transaction another
\* member recorded and leaves out the user's own personal transaction
C7_Witness ==
    /\ last.handler = "archive_handler"
    /\ user_wallet_context[last.user] # None
    /\ \E i \in 1 .. Len(last.out.shown.query) :
           last.out.shown.query[i].user_id # last.user
    /\ \E e \in expenses : e.user_id = last.user /\ e.wallet_id = None

\* C7 as stated: a report also shows exactly the transactions of the scope.
C7_ReportShowsScope ==
    last.handler = "report_handler" => last.out.rows = ScopeOf(last.user)

\* C8: a recorded expense of user u is one new transaction with owner u and
\* with the wallet that was u's active wallet at that event (none if u had
\* none); no step changes the owner or the wallet of a stored transaction.
C8_RecordedScope ==
    [][/\ \A e \in expenses : \A f \in expenses' :
             f.id = e.id => (f.user_id = e.user_id /\ f.wallet_id = e.wallet_id)
       /\ \A u \in Users :
            ( /\ last'.user = u
              /\ last'.handler = "expense_handler"
              /\ last'.reply = "recorded" ) =>
                \E f \in expenses' :
                    /\ \A e \in expenses : e.id # f.id
                    /\ expenses' = expenses \cup {f}
                    /\ f.user_id = u
                    /\ f.wallet_id = user_wallet_context[u]]_vars

\* C8 witness: a user has left the wallet into which the user recorded a
\* transaction, and the transaction is still of that wallet
C8_Witness ==
    /\ last.handler = "leave_wallet"
    /\ last.reply = "left"
    /\ \E e \in expenses : /\ e.user_id = last.user
                           /\ e.wallet_id # None
                           /\ user_wallet_context[last.user] = None

\* the transactions a report asked by the acting user covers
Reported == {e \in ScopeOf(last.user) : InPeriod(e, last.input, last.at)}

\* C9: a report over the transactions of the scope in the period shows, for
\* each of their categories, the sum of its amounts, a grand total that is
\* the sum of all of them, and one drill-down control per category; with no
\* such transaction it answers "no expenses" with no control.  The amounts
\* are those stored when the report is asked, edits included.
C9_ReportTotals ==
    last.handler = "report_handler" =>
        /\ last.reply = (IF Reported = {} THEN "no_expenses" ELSE "report")
        /\ DOMAIN last.out.category_totals = {e.category : e \in Reported}
        /\ \A c \in DOMAIN last.out.category_totals :
               last.out.category_totals[c] =
                   SumAmounts({e \in Reported : e.category = c})
        /\ last.out.total_spent = SumAmounts(Reported)
        /\ Len(last.out.keyboard) = Cardinality({e.category : e \in Reported})
        /\ \A c \in {e.category : e \in Reported} :
               \E i \in 1 .. Len(last.out.keyboard) :
                   last.out.keyboard[i] = <<BtnCat(c)>>

\* C9 witness: a report sums a category of two transactions, one of which
\* carries an edited amount, and leaves out a transaction of the scope dated
\* before the period
C9_Witness ==
    /\ last.handler = "report_handler"
    /\ last.reply = "report"
    /\ \E a, b \in Reported : /\ a.id # b.id
                              /\ a.category = b.category
                              /\ a.amount = 40
    /\ ScopeOf(last.user) # Reported

\* C10 as stated: while a guided flow of a user is pending, the next text of
\* that user is handled by that flow.
C10_NextTextConsumed ==
    [][\A u \in Users :
          ( /\ last' # last
            /\ last'.user = u
            /\ last'.handler \in {"process_filter_date", "update_expense",
                                  "join_wallet_id", "expense_handler",
                                  "report_handler"} ) =>
              /\ conv[u].filter_date = FILTER_DATE =>
                     last'.handler = "process_filter_date"
              /\ conv[u].edit = EDIT_AMOUNT => last'.handler = "update_expense"
              /\ conv[u].join = JOIN_WALLET => last'.handler = "join_wallet_id"]_vars

\* the amount part of a text holds no number: no digit, or two points
BadAmount(a) ==
    \/ \A i \in 1 .. Len(a) : a[i] \notin Digits
    \/ Cardinality({i \in 1 .. Len(a) : a[i] = "."}) > 1

\* a text that is neither "category-amount" nor "category amount"
Unparseable(text) ==
    IF Contains(Strip(text), "-")
    THEN BadAmount(SplitOnce(Strip(text), "-")[2])
    ELSE \/ Len(SplitWs(Strip(text))) < 2
         \/ BadAmount(SplitWs(Strip(text))[Len(SplitWs(Strip(text)))])

\* C11: outside every guided flow, a free text that is no fixed phrase and
\* holds no category and amount is answered with an error; no transaction
\* is inserted and no session-context field, wallet or membership changes.
C11_FormatErrorNoChange ==
    [][( /\ last' # last
         /\ last'.handler = "expense_handler"
         /\ Classify(last'.input) = "expense"
         /\ Unparseable(last'.input) ) =>
           /\ last'.reply \in {"wrong_format", "error"}
           /\ UNCHANGED <<expenses, wallets, wallet_members, user_wallet_context,
                          user_edit_data, user_data, conv>>]_vars

\* C11 witness: a text whose amount part is a malformed number was answered
\* with an error, sent by a user with an active wallet and a monthly archive
C11_Witness ==
    /\ last.handler = "expense_handler"
    /\ last.input = TxtTwoDots
    /\ last.reply = "error"
    /\ user_wallet_context[last.user] # None
    /\ user_data[last.user].view_mode = "monthly"

\* C12 as stated: outside every guided flow the sharing phrases, the text
\* "shared" among them, are answered with the wallet-sharing menu and the
\* report phrases with the report, in any case of the letters.
C12_PhrasesRecognized ==
    /\ (last.handler \in {"expense_handler", "report_handler"}
        /\ last.input \in {TxtSharing, TxtShared}) =>
           last.reply = "sharing_menu"
    /\ (last.handler \in {"expense_handler", "report_handler"}
        /\ last.input \in {TxtDaily, TxtDailyUpper, TxtDailyHebrew,
                           TxtMonthly, TxtMonthlyHebrew}) =>
           /\ last.handler = "report_handler"
           /\ last.reply \in {"report", "no_expenses"}

\* the session context of user u: active wallet, pending edit target,
\* archive view state and the states of the guided flows
Session(u) == <<user_wallet_context[u], user_edit_data[u], user_data[u], conv[u]>>

\* C13: an event of one user leaves the session context of every other user
\* as it was (active wallet, pending edit target, view mode, filters, page,
\* render snapshot, pending flows).
C13_SessionIsolation ==
    [][\A a \in Users : \A b \in Users \ {a} :
          (last' # last /\ last'.user = a) =>
              /\ user_wallet_context'[b] = user_wallet_context[b]
              /\ user_edit_data'[b] = user_edit_data[b]
              /\ user_data'[b] = user_data[b]
              /\ conv'[b] = conv[b]]_vars

\* C13 witness: a user acted while the other user had an active wallet, a
\* pending edit, a monthly archive and a pending join
C13_Witness ==
    \E b \in Users \ {last.user} :
        /\ last.user \in Users
        /\ last.handler = "join_wallet_id"
        /\ user_wallet_context[b] # None
        /\ user_edit_data[b] # None
        /\ user_data[b].view_mode = "monthly"
        /\ conv[b].join = JOIN_WALLET

\* C14: /leave sets the active wallet of the user to none and changes
\* nothing else: no wallet, membership or transaction, and no view mode,
\* filter, page or pending flow of the user; without an active wallet it
\* changes nothing.
C14_LeaveOnlyScope ==
    [][\A u \in Users :
          (last' # last /\ last'.user = u /\ last'.handler = "leave_wallet") =>
              /\ user_wallet_context' = [user_wallet_context EXCEPT ![u] = None]
              /\ last'.reply = (IF user_wallet_context[u] # None
                                THEN "left" ELSE "no_context")
              /\ UNCHANGED <<expenses, wallets, wallet_members, user_edit_data,
                             user_data, conv>>]_vars

\* C14 witness: a member of a wallet left it while the archive was filtered
\* by a month, and the membership row is still there
C14_Witness ==
    /\ last.handler = "leave_wallet"
    /\ last.reply = "left"
    /\ user_wallet_context[last.user] = None
    /\ user_data[last.user].filter_month # None
    /\ \E m \in wallet_members : m.user_id = last.user
    /\ \E e \in expenses : e.wallet_id # None

\* the step is a shared_create of user u
CreateStep(u) ==
    /\ last' # last
    /\ last'.user = u
    /\ last'.handler = "shared_create"

\* no two wallets of a set of rows have the same identifier
UniqueWalletIds(rows) == \A v, w \in rows : v.id = w.id => v = w

\* C15: wallet identifiers are unique in every state, and a shared_create
\* adds one wallet whose identifier lies in 10000..99999 and differs from
\* every identifier in the store, leaving the wallets and memberships that
\* exist as they are.
C15_WalletIdUnique ==
    /\ []UniqueWalletIds(wallets)
    /\ [][\A u \in Users : CreateStep(u) =>
             /\ \E w \in wallets' :
                  /\ w.id >= WalletIdMin
                  /\ w.id <= WalletIdMax
                  /\ w.id = last'.out.wallet_id
                  /\ \A v \in wallets : v.id # w.id
                  /\ wallets' = wallets \cup {w}
             /\ wallet_members \subseteq wallet_members'
             /\ \A m \in wallet_members' \ wallet_members :
                    m.wallet_id = last'.out.wallet_id]_vars

\* C15 witness: a second wallet was created while one with members existed
C15_Witness ==
    /\ last.handler = "shared_create"
    /\ Cardinality(wallets) = 2
    /\ \E m \in wallet_members : m.wallet_id # last.out.wallet_id

\* C16: every wallet's owner is a member of it in every state, and after a
\* shared_create of user u the membership row (new wallet, u) exists and
\* the new wallet is u's active wallet.
C16_OwnerIsMember ==
    /\ [](\A w \in wallets : RowsOf(wallet_members, w.id, w.owner_id) # {})
    /\ [][\A u \in Users : CreateStep(u) =>
             /\ RowsOf(wallet_members', last'.out.wallet_id, u) # {}
             /\ user_wallet_context'[u] = last'.out.wallet_id
             /\ \E w \in wallets' : w.id = last'.out.wallet_id /\ w.owner_id = u]_vars

\* C16 witness: the owner of a wallet has left it and is working in the
\* wallet of another user, and is still a member of the own wallet
C16_Witness ==
    \E w \in wallets :
        /\ user_wallet_context[w.owner_id] # None
        /\ user_wallet_context[w.owner_id] # w.id
        /\ RowsOf(wallet_members, w.id, w.owner_id) # {}

\* C17: in the join flow an integer that names no wallet is answered with
\* not found; no membership row is inserted, the active wallet of the user
\* stays, and the flow ends, so that the next text is not taken by it.
C17_JoinNotFound ==
    [][\A u \in Users :
          ( /\ JoinStep(u)
            /\ ParseInt(Strip(last'.input)).ok
            /\ \A w \in wallets : w.id # ParseInt(Strip(last'.input)).val ) =>
              /\ last'.reply = "wallet_not_found"
              /\ wallet_members' = wallet_members
              /\ wallets' = wallets
              /\ user_wallet_context' = user_wallet_context
              /\ conv'[u].join = END]_vars

\* C17 witness: a user with an active wallet named a wallet that does not
\* exist, and the next text of the user goes to expense_handler
C17_Witness ==
    /\ last.handler = "join_wallet_id"
    /\ last.reply = "wallet_not_found"
    /\ user_wallet_context[last.user] # None
    /\ Route(last.user) = "expense_handler"

\* C18 as stated: in every state at most one of the day filter and the
\* month filter of a user is set.
C18_OneFilter ==
    \A u \in Users :
        ~(user_data[u].archive_filter_date # NoDate /\ user_data[u].filter_month # None)

\* C19 as stated: while the view mode of a user is monthly neither filter
\* is set, and a monthly render groups all transactions of the scope and
\* offers no clear-filter control.
C19_MonthlyNoFilter ==
    /\ \A u \in Users :
           user_data[u].view_mode = "monthly" =>
               /\ user_data[u].archive_filter_date = NoDate
               /\ user_data[u].filter_month = None
    /\ (Rendered /\ last.out.shown.view = "monthly") =>
           /\ SeqToSet(last.out.shown.query) = ScopeOf(last.user)
           /\ \A i \in 1 .. Len(last.out.shown.keyboard) :
                  last.out.shown.keyboard[i] # <<BtnPlain("archive_clear_filter")>>

\* C20 as stated: a press of the month row of month k sets the month filter
\* to k, the view mode to list and the page to 0, and the render that
\* follows lists only transactions of month k, from the first page.
C20_MonthRow ==
    (last.handler = "archive_navigation" /\ last.input.kind = "month") =>
        /\ user_data[last.user].filter_month = last.input.n
        /\ user_data[last.user].view_mode = "list"
        /\ user_data[last.user].archive_page = 0
        /\ last.out.shown.view = "list"
        /\ last.out.shown.page = 0
        /\ SeqToSet(last.out.shown.query) \subseteq Bucket(last.input.n)

\* C21 as stated: every stored transaction amount is non-negative in every
\* state reached by record-expense events and edit-amount flows.
C21_AmountsNonNegative == \A e \in expenses : e.amount >= 0

\* a press of the pagination control kind_<p> by user u was handled in
\* this step
PageStep(u, kind) ==
    /\ last'.handler = "archive_navigation"
    /\ last'.user = u
    /\ last'.input.kind = kind
    /\ (last' # last \/ user_data' # user_data)

\* C22: a press of archive_next_<p> (archive_prev_<p>) leaves the stored
\* page at p+1 (p-1) whatever the stored page was before; a second press of
\* the same control leaves it where the first press put it.
C22_TokenPage ==
    /\ [][\A u \in Users :
            /\ PageStep(u, "archive_next") =>
                   user_data'[u].archive_page = last'.input.n + 1
            /\ PageStep(u, "archive_prev") =>
                   user_data'[u].archive_page = last'.input.n - 1]_vars
    /\ [][\A u \in Users :
            (/\ last.handler = "archive_navigation"
             /\ last.user = u
             /\ last.input.kind = "archive_next"
             /\ last'.handler = "archive_navigation"
             /\ last'.user = u
             /\ last'.input = last.input) =>
                user_data'[u].archive_page = user_data[u].archive_page]_vars

\* C22 witness: the second press of a Next control was handled, found the
\* render equal to the snapshot, and the stored page is the token's page
\* plus one
C22_Witness ==
    /\ last.handler = "archive_navigation"
    /\ last.input.kind = "archive_next"
    /\ last.out.result.transport = "skipped"
    /\ user_data[last.user].archive_page = last.input.n + 1
    /\ last.out.shown.page = last.input.n + 1

\* a handler of user u ran archive_handler, and with it send_or_edit, in
\* this step
RenderStep(u) ==
    /\ last'.reply \in {"archive", "filter_set"}
    /\ last'.user = u
    /\ (last' # last \/ user_data' # user_data)

\* the (text, controls) pair of a user_data
Snapshot(ud) == <<ud.last_archive_text, ud.last_archive_keyboard>>

\* C23: send_or_edit called with a (text, controls) pair equal to the
\* snapshot of the user writes nothing to the transport and leaves the
\* snapshot as it is; called with another pair it makes one send or one
\* edit attempt and the snapshot becomes that pair.
C23_RenderSuppression ==
    [][\A u \in Users :
         RenderStep(u) =>
             IF Snapshot(user_data[u])
                    = <<last'.out.shown.text, last'.out.shown.keyboard>>
             THEN /\ last'.out.result.transport = "skipped"
                  /\ Snapshot(user_data'[u]) = Snapshot(user_data[u])
             ELSE /\ last'.out.result.transport \in {"sent", "edited", "edit_failed"}
                  /\ last'.out.result.transport = "sent"
                         <=> last'.handler # "archive_navigation"
                  /\ Snapshot(user_data'[u])
                         = <<last'.out.shown.text, last'.out.shown.keyboard>>]_vars

\* C23 witness: /archive computed the pair the snapshot already held and
\* nothing was sent
C23_Witness ==
    /\ last.handler = "archive_handler"
    /\ last.out.result.transport = "skipped"
    /\ Snapshot(user_data[last.user])
           = <<last.out.shown.text, last.out.shown.keyboard>>

\* the edit of the render of user u was refused in this step
EditFailedStep(u) ==
    /\ RenderStep(u)
    /\ last'.out.result.transport = "edit_failed"

\* C24: a refused message edit during an archive render is swallowed: the
\* event completes, the ledger is untouched, the view mode, the filters and
\* the page of the user are the ones the event set, and the state that later
\* events of the user are handled from is the one an accepted edit leaves.
C24_EditFailureSwallowed ==
    /\ [][\A u \in Users :
            EditFailedStep(u) =>
                /\ last'.handler = "archive_navigation"
                /\ last'.reply = "archive"
                /\ UNCHANGED <<expenses, wallets, wallet_members,
                               user_wallet_context, user_edit_data, conv>>
                /\ user_data'[u].view_mode
                       = Navigate(user_data[u], last'.input).view_mode
                /\ user_data'[u].archive_filter_date
                       = Navigate(user_data[u], last'.input).archive_filter_date
                /\ user_data'[u].filter_month
                       = Navigate(user_data[u], last'.input).filter_month
                /\ user_data'[u].archive_page
                       = Navigate(user_data[u], last'.input).archive_page
                /\ user_data'[u]
                       = ArchiveRun(u, Navigate(user_data[u], last'.input),
                                    TRUE, TRUE).result.ud]_vars
    /\ [][(/\ last.reply = "archive"
           /\ last.out.result.transport = "edit_failed"
           /\ last' # last) => last'.reply # "error"]_vars

\* C24 witness: the edit of a switch to the monthly view was refused and
\* the session holds the monthly view
C24_Witness ==
    /\ last.handler = "archive_navigation"
    /\ last.input.kind = "archive_view_monthly"
    /\ last.out.result.transport = "edit_failed"
    /\ user_data[last.user].view_mode = "monthly"
    /\ user_data[last.user].last_archive_text = last.out.shown.text

\* the guided flow of handler h took a text of user u in this step
FlowReplyStep(u, h) ==
    /\ Route(u) = h
    /\ last'.handler = h
    /\ last'.user = u
    /\ last' # last

\* the store and the session context, without the pending flows
StoreAndContext ==
    <<expenses, wallets, wallet_members, user_wallet_context, user_edit_data,
      user_data>>

\* C25: in a pending wallet-join flow a reply that is no integer, and in a
\* pending date-filter flow a reply that is no date, is reported as
\* invalid, changes no store or session-context field and leaves the same
\* flow pending: a text sent next goes to the same handler.
C25_InvalidReprompts ==
    [][\A u \in Users :
         /\ (FlowReplyStep(u, "join_wallet_id")
             /\ ~ParseInt(Strip(last'.input)).ok) =>
                /\ last'.reply = "invalid_wallet_id"
                /\ UNCHANGED <<StoreAndContext, conv>>
                /\ conv'[u].join = JOIN_WALLET
                /\ Route(u)' = "join_wallet_id"
         /\ (FlowReplyStep(u, "process_filter_date")
             /\ ~ParseDate(Strip(last'.input)).ok) =>
                /\ last'.reply = "invalid_date"
                /\ UNCHANGED <<StoreAndContext, conv>>
                /\ conv'[u].filter_date = FILTER_DATE
                /\ Route(u)' = "process_filter_date"]_vars

\* C25 witness: a wallet-join flow answered with a text that is no integer
\* is still pending, after the user had recorded an expense
C25_Witness ==
    /\ last.handler = "join_wallet_id"
    /\ last.reply = "invalid_wallet_id"
    /\ last.input = TxtB5
    /\ conv[last.user].join = JOIN_WALLET
    /\ Route(last.user) = "join_wallet_id"
    /\ Cardinality(expenses) > 1

\* a text message of user u was handled in this step
TextStep(u) ==
    /\ last' # last
    /\ last'.user = u
    /\ last'.handler \in {"update_expense", "join_wallet_id", "process_filter_date",
                          "expense_handler", "report_handler"}

\* C26 as stated: in a pending edit-amount flow the next text of the user
\* ends the flow whatever it is: a reply that is no number is reported as
\* invalid and changes no transaction, a number updates the target or is
\* answered with not found; the text that follows is routed as a top-level
\* command or expense.
C26_EditReplyEndsFlow ==
    [][\A u \in Users :
         (conv[u].edit = EDIT_AMOUNT /\ TextStep(u)) =>
             /\ last'.handler = "update_expense"
             /\ conv'[u].edit = END
             /\ IF ParseFloat(Strip(last'.input)).ok
                THEN \/ /\ last'.reply = "updated"
                        /\ expenses' = SetAmount(user_edit_data[u],
                                                 ParseFloat(Strip(last'.input)).val)
                     \/ /\ last'.reply = "not_found"
                        /\ expenses' = expenses
                ELSE /\ last'.reply = "invalid_amount"
                     /\ expenses' = expenses
             /\ Route(u)' = "expense_handler"]_vars

\* the personal transactions of user u
PersonalOf(u) == {e \in expenses : e.user_id = u /\ e.wallet_id = None}

\* the first event of user u after a restart was handled in this step
AfterRestartStep(u) ==
    /\ last.handler = "restart"
    /\ last'.user = u
    /\ last' # last

\* C27: a restart discards every session context and pending flow and
\* keeps the ledger; the next event of every user is answered from the
\* defaults (personal scope, list view, no filter, page 0, no pending
\* edit): /archive, a report, a control of a message from before the
\* restart, a plain text.
C27_RestartDefaults ==
    /\ [](last.handler = "restart" =>
            \A u \in Users :
                /\ user_wallet_context[u] = None
                /\ user_edit_data[u] = None
                /\ user_data[u] = DefaultUserData
                /\ conv[u] = DefaultConv
                /\ Route(u) = "expense_handler")
    /\ [][last'.handler = "restart" =>
             UNCHANGED <<expenses, wallets, wallet_members>>]_vars
    /\ [][\A u \in Users :
            AfterRestartStep(u) =>
                /\ last'.reply # "error"
                /\ last'.handler \notin
                       {"update_expense", "join_wallet_id", "process_filter_date"}
                /\ last'.handler = "archive_handler" =>
                       /\ last'.out.shown.view = "list"
                       /\ last'.out.shown.page = 0
                       /\ SeqToSet(last'.out.shown.query) = PersonalOf(u)
                       /\ last'.out.result.transport = "sent"
                /\ (/\ last'.handler = "archive_navigation"
                    /\ last'.input.kind \in {"archive_next", "archive_prev"}) =>
                       /\ last'.out.shown.view = "list"
                       /\ SeqToSet(last'.out.shown.query) = PersonalOf(u)
                       /\ last'.out.shown.page
                              = ClampPage(user_data'[u].archive_page,
                                          last'.out.shown.total_pages)
                /\ (/\ last'.handler = "archive_navigation"
                    /\ last'.input.kind = "month") =>
                       /\ last'.out.shown.view = "list"
                       /\ last'.out.shown.page = 0
                       /\ SeqToSet(last'.out.shown.query) \subseteq PersonalOf(u)
                /\ last'.handler = "report_handler" =>
                       last'.out.rows
                           = {e \in PersonalOf(u) : InPeriod(e, last'.input, now)}
                /\ last'.handler = "expense_handler" =>
                       \/ /\ last'.reply = "recorded"
                          /\ last'.out.expense.wallet_id = None
                          /\ expenses' = expenses \cup {last'.out.expense}
                       \/ /\ last'.reply = "wrong_format"
                          /\ expenses' = expenses
                /\ last'.handler = "edit_expense" =>
                       /\ last'.reply \in {"prompt", "not_found"}
                       /\ user_edit_data'[u] = last'.input
                /\ last'.handler = "delete_expense" =>
                       last'.reply \in {"deleted", "not_found"}]_vars

\* C27 witness: a restart has discarded the sessions after a user recorded
\* into a wallet, and every user is back in the personal scope with the
\* list view and no pending flow
C27_Witness ==
    /\ last.handler = "restart"
    /\ \E e \in expenses : e.wallet_id # None /\ e.user_id = 2
    /\ \A u \in Users : user_wallet_context[u] = None /\ conv[u] = DefaultConv

\* the handlers of slots a then b run one after the other from user_data ud:
\* what each rendered and the user_data left
SerialFirst(a, ud) ==
    Handle(inflight.tasks[a].user, ud, inflight.tasks[a].handler,
           inflight.tasks[a].data)

SerialSecond(a, b, ud) ==
    Handle(inflight.tasks[b].user, SerialFirst(a, ud).result.ud,
           inflight.tasks[b].handler, inflight.tasks[b].data)

Kept(u, ud) ==
    {e \in ScopeOf(u) :
        /\ ud.archive_filter_date # NoDate => DateOf(e.timestamp) = ud.archive_filter_date
        /\ ud.filter_month # None => MonthKey(e.timestamp) = ud.filter_month}

\* C29 as stated: a list render shows rows [5p, 5p + 5), p the clamped
\* page, of the transactions of the scope that pass the active filter,
\* newest first: a day filter keeps those of the day, a month filter those
\* of the month, no filter keeps all.
C29_ListRender ==
    (Rendered /\ last.out.shown.view = "list") =>
        /\ SeqToSet(last.out.shown.query) = Kept(last.user, user_data[last.user])
        /\ Len(last.out.shown.query) = Cardinality(Kept(last.user, user_data[last.user]))
        /\ \A i \in 1 .. Len(last.out.shown.query) - 1 :
               last.out.shown.query[i].timestamp >= last.out.shown.query[i + 1].timestamp
        /\ last.out.shown.page
               = ClampPage(user_data[last.user].archive_page, last.out.shown.total_pages)
        /\ Len(last.out.shown.text.lines)
               = Max2(0, Min2(5, Len(last.out.shown.query) - 5 * last.out.shown.page))
        /\ \A i \in 1 .. Len(last.out.shown.text.lines) :
               /\ last.out.shown.text.lines[i].when
                      = FormatTs(last.out.shown.query[5 * last.out.shown.page + i].timestamp)
               /\ last.out.shown.text.lines[i].category
                      = last.out.shown.query[5 * last.out.shown.page + i].category
               /\ last.out.shown.text.lines[i].amount
                      = last.out.shown.query[5 * last.out.shown.page + i].amount

\* the keyboard of the render of the last event carries a control of kind k
Offers(k) ==
    \E i \in 1 .. Len(last.out.shown.keyboard) :
        \E j \in 1 .. Len(last.out.shown.keyboard[i]) :
            last.out.shown.keyboard[i][j].kind = k

\* C30: in list and in monthly mode a render offers Previous iff the page
\* rendered (after clamping) is > 0 and Next iff it is < total_pages - 1,
\* neither with zero or one page; a list render offers the clear-filter
\* control iff a day or a month filter is set.
C30_Controls ==
    Rendered =>
        /\ last.out.shown.view \in {"list", "monthly"}
        /\ Offers("archive_prev") <=> last.out.shown.page > 0
        /\ Offers("archive_next")
               <=> last.out.shown.page < last.out.shown.total_pages - 1
        /\ last.out.shown.total_pages * 5 >= RenderCount
        /\ RenderCount <= 5 =>
               ~Offers("archive_prev") /\ ~Offers("archive_next")
        /\ last.out.shown.view = "list" =>
               (Offers("archive_clear_filter")
                    <=> \/ user_data[last.user].archive_filter_date # NoDate
                        \/ user_data[last.user].filter_month # None)

\* C30 witness: the last of two pages of the unfiltered list is rendered:
\* Previous is offered, Next and the clear-filter control are not
C30_Witness ==
    /\ Rendered
    /\ last.out.shown.view = "list"
    /\ last.out.shown.total_pages = 2
    /\ last.out.shown.page = 1
    /\ Offers("archive_prev")
    /\ ~Offers("archive_next")
    /\ ~Offers("archive_clear_filter")
    /\ user_data[last.user].filter_month = None

\* the number of pages of the view user u has now
CurrentPages(u) == ArchiveView(u, user_data[u]).total_pages

\* C31 as stated: the archive_page stored for a user is never negative and
\* never exceeds total_pages - 1 of the current view of the user (0 when
\* the view is empty), also after deletions, filter changes and changes of
\* scope.
C31_StoredPageInRange ==
    \A u \in Users :
        /\ user_data[u].archive_page >= 0
        /\ user_data[u].archive_page <= Max2(0, CurrentPages(u) - 1)


\* C32: shared_create always completes: once its loop draws, it ends with an
\* identifier no wallet has, whatever the wallet table holds, when every
\* identifier of the range keeps being drawn
C32_CreateCompletes ==
    (inflight.tasks[1].pc = "draw") ~> (inflight = NoTasks /\ last.handler = "shared_create")


\* C33: user_edit_data holds an entry for a user exactly while the edit flow
\* of that user awaits the amount
C33_EditDataIffAwaiting ==
    \A u \in Users : (user_edit_data[u] # None) <=> (conv[u].edit = EDIT_AMOUNT)


\* C34: a delete_<id> or an edit that is carried out removes or changes only
\* transactions that were in the scope of the acting user when it ran
C34_ChangesInScopeOnly ==
    [][(last' # last /\ last'.handler \in {"delete_expense", "update_expense"})
           => \A e \in expenses : e \notin expenses' => InScope(e, last'.user)]_vars


\* C35: at most one of the three guided flows of a user is pending
C35_OneFlowPending ==
    \A u \in Users :
        Cardinality({f \in {"edit", "join", "filter_date"} : conv[u][f] # END}) <= 1


\* C36: the active wallet of a user is a wallet of the store of which the
\* user is a member, after any creations, joins (failed ones too), leaves
\* and restarts
C36_ActiveWalletIsMembership ==
    \A u \in Users :
        user_wallet_context[u] # None =>
            /\ \E w \in wallets : w.id = user_wallet_context[u]
            /\ \E m \in wallet_members :
                   m.wallet_id = user_wallet_context[u] /\ m.user_id = u

\* a join that named no wallet of the store, by a user with an active wallet
C36_Witness ==
    /\ last.handler = "join_wallet_id"
    /\ last.reply = "wallet_not_found"
    /\ user_wallet_context[last.user] # None


\* C37: every /archive results in one archive message sent to the user, also
\* when the computed content equals what was rendered last
C37_ArchiveAlwaysSends ==
    [][(last' # last /\ last'.handler = "archive_handler")
           => last'.out.result.transport = "sent"]_vars

\* C38: the snapshot of a user is the pair of the latest transport write of
\* that user that succeeded: a send or an accepted edit makes the snapshot the
\* pair written, and no other step, a refused edit included, changes it
C38_SnapshotIsLastWritten ==
    [][\A u \in Users :
         IF RenderStep(u) /\ last'.out.result.transport \in {"sent", "edited"}
         THEN Snapshot(user_data'[u])
                  = <<last'.out.shown.text, last'.out.shown.keyboard>>
         ELSE Snapshot(user_data'[u]) = Snapshot(user_data[u])]_vars


\* C39: the rows listed when a category button of a report is pressed right
\* after the report are the rows of that category the report counted, so
\* their amounts sum to the category total of the report
C39_DrillDownMatchesReport ==
    [][( /\ last.handler = "report_handler"
         /\ last.reply = "report"
         /\ last' # last
         /\ last'.handler = "category_breakdown"
         /\ last'.user = last.user
         /\ \E e \in last.out.rows : e.category = last'.input )
           => /\ last'.reply = "breakdown"
              /\ last'.out.rows = {e \in last.out.rows : e.category = last'.input}
              /\ SumAmounts(last'.out.rows)
                     = SumAmounts({e \in last.out.rows : e.category = last'.input})]_vars


\* C40: the day filter is reached with the commands and the controls the bot
\* offers: a user who keeps using them gets the date prompt or a day filter
C40_DayFilterReached ==
    <>(\E u \in Users :
           \/ conv[u].filter_date = FILTER_DATE
           \/ user_data[u].archive_filter_date # NoDate)

====
